---------------------------- MODULE Spec2Model ----------------------------
(***************************************************************************)
(* light-browser: the tiered fetch engine (src/core/engine) and the        *)
(* process-wide browser it shares, as a state machine.                     *)
(*                                                                         *)
(* A JavaScript async function runs without interruption from one await to *)
(* the next, so each action below is one such run: the code between two    *)
(* suspension points of Engine.fetch / Engine.close, with the tier         *)
(* fetcher's own code between the same two points folded in.               *)
(***************************************************************************)
EXTENDS Integers, Sequences, FiniteSets, TLC

(***************************************************************************)
(* Bounds of the model.                                                    *)
(***************************************************************************)
\* Browsers the environment can start in one run (chromium.launch calls).
MaxLaunches == 2
\* Concurrent callers of the lazy singletons (getBrowser, getEmbeddingPipeline).
MaxCallers == 4
\* Nodes of a content array handed to truncateContent.
MaxNodes == 3
\* Characters of a string handed to estimateTokens and truncateText.
MaxChars == 100
\* The largest token budget (maxTokens) a call is made with.
MaxTokens == 30
\* Chunks of a list handed to semanticSearch, and the largest topK.
MaxChunks == 3
MaxTopK == 2
\* the longest vector cosineSimilarity is called with
MaxDim == 2
\* the most nodes, or paragraphs, in a document given to the chunker
MaxItems == 2
\* the most URLs in a batch, and the highest concurrency
MaxUrls == 3

(***************************************************************************)
(* EngineTier (core/types.ts).                                             *)
(***************************************************************************)
CHEERIO == 1
JSDOM == 2
PLAYWRIGHT == 3
Tiers == {CHEERIO, JSDOM, PLAYWRIGHT}

Engines == {"A", "B"}

(***************************************************************************)
(* URLs.  `new URL(url)` either throws (malformed) or yields a protocol;   *)
(* the fetchers accept only http: and https:.  The words are the           *)
(* substrings of the URL text that the error classifiers look for: the     *)
(* URL is spliced into several error messages.                             *)
(***************************************************************************)
Urls ==
    { "https://example.com/",
      "https://example.com/Timeout",
      "not-a-valid-url",
      "not-a-url-timeout",
      "ftp://example.com/" }

\* new URL(url) throws
Malformed(url) == url \in {"not-a-valid-url", "not-a-url-timeout"}

\* parsedUrl.protocol
Protocol(url) ==
    IF url = "ftp://example.com/" THEN "ftp:" ELSE "https:"

UrlWords(url) ==
    CASE url = "https://example.com/Timeout" -> {"Timeout"}
      [] url = "not-a-url-timeout" -> {"timeout"}
      [] OTHER -> {}

(***************************************************************************)
(* Errors.  A message is modelled by the set of classifier words it        *)
(* contains.  `at` is the tier whose fetcher created the error object: it  *)
(* stands for the object's identity.                                       *)
(***************************************************************************)
\* String.prototype.toLowerCase on the words of a message
Lower(w) ==
    CASE w = "Timeout" -> "timeout"
      [] w = "LOADING..." -> "loading..."
      [] w = "Loading..." -> "loading..."
      [] w = "Please enable JavaScript" -> "please enable javascript"
      [] w = "requires JavaScript" -> "requires javascript"
      [] w = "__NEXT_DATA__" -> "__next_data__"
      [] w = "__NUXT__" -> "__nuxt__"
      [] OTHER -> w

\* message.toLowerCase().includes(w)
LowerIncludes(msg, w) == \E x \in msg : Lower(x) = w

\* new BrowserError(code, message, {recoverable})
BrowserError(code, msg, recoverable, at) ==
    [cls |-> "BrowserError", name |-> "BrowserError", code |-> code,
     msg |-> msg, recoverable |-> recoverable, at |-> at]

\* new Error(message), or what fetch / playwright reject with
RawError(name, msg, at) ==
    [cls |-> "Error", name |-> name, code |-> "none",
     msg |-> msg, recoverable |-> FALSE, at |-> at]

timeoutError(url, at) ==
    BrowserError("TIMEOUT", UrlWords(url), TRUE, at)

httpClientError(status, url, at) ==
    BrowserError("HTTP_CLIENT_ERROR", UrlWords(url), status = 429, at)

httpServerError(status, url, at) ==
    BrowserError("HTTP_SERVER_ERROR", UrlWords(url), TRUE, at)

isNetworkError(error) ==
    \/ LowerIncludes(error.msg, "fetch")
    \/ LowerIncludes(error.msg, "network")
    \/ LowerIncludes(error.msg, "econnrefused")
    \/ LowerIncludes(error.msg, "enotfound")
    \/ LowerIncludes(error.msg, "etimedout")
    \/ LowerIncludes(error.msg, "socket")

\* wrapError without its last branch: an error no rule classifies is handed
\* back as it came
wrapErrorPassesUnclassified(error) ==
    IF error.cls = "BrowserError" THEN error
    ELSE IF LowerIncludes(error.msg, "enotfound") \/ LowerIncludes(error.msg, "getaddrinfo")
         THEN BrowserError("DNS_ERROR", error.msg, FALSE, error.at)
    ELSE IF LowerIncludes(error.msg, "etimedout") \/ LowerIncludes(error.msg, "timeout")
         THEN BrowserError("TIMEOUT", error.msg, TRUE, error.at)
    ELSE IF LowerIncludes(error.msg, "ssl") \/ LowerIncludes(error.msg, "certificate")
         THEN BrowserError("SSL_ERROR", error.msg, FALSE, error.at)
    ELSE IF isNetworkError(error)
         THEN BrowserError("NETWORK_ERROR", error.msg, TRUE, error.at)
    ELSE error

wrapError(error) ==
    IF error.cls = "BrowserError" THEN error
    ELSE IF LowerIncludes(error.msg, "enotfound") \/ LowerIncludes(error.msg, "getaddrinfo")
         THEN BrowserError("DNS_ERROR", error.msg, FALSE, error.at)
    ELSE IF LowerIncludes(error.msg, "etimedout") \/ LowerIncludes(error.msg, "timeout")
         THEN BrowserError("TIMEOUT", error.msg, TRUE, error.at)
    ELSE IF LowerIncludes(error.msg, "ssl") \/ LowerIncludes(error.msg, "certificate")
         THEN BrowserError("SSL_ERROR", error.msg, FALSE, error.at)
    ELSE IF isNetworkError(error)
         THEN BrowserError("NETWORK_ERROR", error.msg, TRUE, error.at)
    ELSE BrowserError("NETWORK_ERROR", error.msg, FALSE, error.at)

(***************************************************************************)
(* Pages.  The heuristics read the markup through two regular expressions  *)
(* and String.includes; a page is modelled by what those read:             *)
(*   body      /<body[^>]*>([\s\S]*?)<\/body>/i matches                     *)
(*   raw       length of the matched body content                          *)
(*   noScript  length of that content with <script> elements removed,      *)
(*             trimmed                                                     *)
(*   text      length with <script>, <style> and every tag removed,        *)
(*             trimmed (the visible text)                                  *)
(*   noscript  trimmed length of the first <noscript> element's content    *)
(*   subs      the literal substrings of the markup the heuristics look    *)
(*             for                                                         *)
(***************************************************************************)
Pages ==
    { "article", "spa-root", "short99", "exact100", "tag-heavy",
      "fragment", "empty-body", "webpack", "next", "LOADING" }

Html(p) ==
    CASE p = "article" ->
           [body |-> TRUE, raw |-> 5000, noScript |-> 4000, text |-> 2000,
            noscript |-> 0, subs |-> {}]
      [] p = "spa-root" ->   \* <body><div id="root"></div><script src=...></script></body>
           [body |-> TRUE, raw |-> 60, noScript |-> 21, text |-> 0,
            noscript |-> 0, subs |-> {"id=\"root\""}]
      [] p = "short99" ->    \* 99 characters of plain text in the body
           [body |-> TRUE, raw |-> 99, noScript |-> 99, text |-> 99,
            noscript |-> 0, subs |-> {}]
      [] p = "exact100" ->   \* exactly 100 characters of plain text
           [body |-> TRUE, raw |-> 100, noScript |-> 100, text |-> 100,
            noscript |-> 0, subs |-> {}]
      [] p = "tag-heavy" ->  \* much markup, 40 characters of visible text
           [body |-> TRUE, raw |-> 900, noScript |-> 400, text |-> 40,
            noscript |-> 0, subs |-> {}]
      [] p = "fragment" ->   \* no <body> element at all, a few words
           [body |-> FALSE, raw |-> 0, noScript |-> 0, text |-> 0,
            noscript |-> 0, subs |-> {}]
      [] p = "empty-body" -> \* <body></body>
           [body |-> TRUE, raw |-> 0, noScript |-> 0, text |-> 0,
            noscript |-> 0, subs |-> {}]
      [] p = "webpack" ->    \* server-rendered article with a webpack bundle
           [body |-> TRUE, raw |-> 5000, noScript |-> 4000, text |-> 2000,
            noscript |-> 0, subs |-> {"__webpack_require__"}]
      [] p = "next" ->       \* server-rendered Next.js page
           [body |-> TRUE, raw |-> 5000, noScript |-> 4000, text |-> 2000,
            noscript |-> 0, subs |-> {"id=\"__next\"", "__NEXT_DATA__"}]
      [] OTHER ->            \* "LOADING": an article with an upper-case banner
           [body |-> TRUE, raw |-> 5000, noScript |-> 4000, text |-> 2000,
            noscript |-> 0, subs |-> {"LOADING..."}]

\* html.includes(s)
Includes(html, s) == s \in html.subs

\* html.toLowerCase().includes(s.toLowerCase())
IncludesIgnoreCase(html, s) == \E x \in html.subs : Lower(x) = Lower(s)

\* JS_REQUIRED_SIGNALS[0]: short body once the scripts are removed
SignalShortBody(html) == html.body /\ html.noScript < 100

\* JS_REQUIRED_SIGNALS[1]: a <noscript> element with significant content
SignalNoscript(html) == html.noscript > 50

\* JS_REQUIRED_SIGNALS[2]: SPA framework markers
SignalSpaMarker(html) ==
    \E s \in {"id=\"root\"", "id=\"app\"", "id=\"__next\"", "id=\"__nuxt\"",
              "ng-app", "data-reactroot"} : Includes(html, s)

needsJavaScript(html) ==
    LET spaIndicators ==
            {"id=\"root\"", "id=\"app\"", "data-reactroot", "__NEXT_DATA__",
             "v-cloak", "__NUXT__", "ng-app", "ng-version", "Loading...",
             "Please enable JavaScript", "requires JavaScript", "noscript"}
        hasIndicator == \E s \in spaIndicators : IncludesIgnoreCase(html, s)
    IN  IF html.body /\ html.raw > 0 /\ html.text < 100
        THEN TRUE
        ELSE hasIndicator

\* the three inline signals alone, without tier 2's needsJavaScript
detectJsRequiredSignalsOnly(html) ==
    \/ SignalShortBody(html)
    \/ SignalNoscript(html)
    \/ SignalSpaMarker(html)

detectJsRequired(html) ==
    \/ SignalShortBody(html)
    \/ SignalNoscript(html)
    \/ SignalSpaMarker(html)
    \/ needsJavaScript(html)

detectNeedsFullBrowser(html) ==
    \E s \in {"__NEXT_DATA__", "__NUXT__", "webpackJsonp", "__webpack_require__",
              "customElements.define", "attachShadow", "IntersectionObserver",
              "requestIdleCallback"} : Includes(html, s)

\* Engine.shouldEscalate(html, currentTier)
shouldEscalate(page, tier) ==
    IF tier = CHEERIO THEN detectJsRequired(Html(page))
    ELSE IF tier = JSDOM THEN detectNeedsFullBrowser(Html(page))
    ELSE FALSE

(***************************************************************************)
(* What a fetcher's promise settles with: a PageResult or a thrown error.  *)
(***************************************************************************)
NoError == [cls |-> "none", name |-> "none", code |-> "none", msg |-> {},
            recoverable |-> FALSE, at |-> 0]

\* the PageResult a fetcher returns
PageResult(tier, page, status) ==
    [ok |-> TRUE, tierUsed |-> tier, html |-> page, statusCode |-> status,
     error |-> NoError]

\* a rejected fetcher promise
Thrown(error) ==
    [ok |-> FALSE, tierUsed |-> 0, html |-> "none", statusCode |-> 0,
     error |-> error]

(***************************************************************************)
(* The environment: what the network (fetch, page.goto) answers.           *)
(***************************************************************************)
Statuses == {200, 404, 429, 500}

HttpResponse(status, page) ==
    [kind |-> "http", status |-> status, page |-> page, name |-> "none", msg |-> {}]

Rejection(name, msg) ==
    [kind |-> "reject", status |-> 0, page |-> "none", name |-> name, msg |-> msg]

HttpResponses ==
    {HttpResponse(200, p) : p \in Pages}
        \cup {HttpResponse(s, "none") : s \in Statuses \ {200}}

\* fetch() of tiers 1 and 2: the abort of the timeout, a failed connection,
\* a failed name lookup, a bad certificate, or a failure while reading or
\* parsing the body
FetchRejections ==
    { Rejection("AbortError", {}),
      Rejection("TypeError", {"fetch"}),
      Rejection("Error", {"getaddrinfo", "enotfound"}),
      Rejection("Error", {"certificate"}),
      Rejection("Error", {}) }

\* page.goto of tier 3: playwright's TimeoutError, or a navigation error
GotoRejections ==
    { Rejection("TimeoutError", {"Timeout"}),
      Rejection("Error", {}) }

(***************************************************************************)
(* The tier fetchers, from the URL and the environment's answer.           *)
(***************************************************************************)
\* the URL check every fetcher starts with
UrlValid(url) == ~Malformed(url) /\ Protocol(url) \in {"http:", "https:"}

\* what the URL check throws: wrapError(new Error(...))
UrlError(url, tier) ==
    IF Malformed(url)
    THEN wrapError(RawError("Error", UrlWords(url), tier))   \* `Invalid URL: ${url}`
    ELSE wrapError(RawError("Error", {}, tier))   \* `Unsupported protocol: ftp:`

cheerioFetch(url, resp) ==
    IF ~UrlValid(url) THEN Thrown(UrlError(url, CHEERIO))
    ELSE IF resp.kind = "reject"
         THEN IF resp.name = "AbortError"
              THEN Thrown(timeoutError(url, CHEERIO))
              ELSE Thrown(wrapError(RawError(resp.name, resp.msg, CHEERIO)))
    ELSE IF resp.status >= 400 /\ resp.status < 500
         THEN Thrown(wrapError(httpClientError(resp.status, url, CHEERIO)))
    ELSE IF resp.status >= 500
         THEN Thrown(wrapError(httpServerError(resp.status, url, CHEERIO)))
    ELSE PageResult(CHEERIO, resp.page, resp.status)

jsdomFetch(url, resp) ==
    IF ~UrlValid(url) THEN Thrown(UrlError(url, JSDOM))
    ELSE IF resp.kind = "reject"
         THEN IF resp.name = "AbortError"
              THEN Thrown(timeoutError(url, JSDOM))
              ELSE Thrown(wrapError(RawError(resp.name, resp.msg, JSDOM)))
    ELSE IF resp.status >= 400 /\ resp.status < 500
         THEN Thrown(wrapError(httpClientError(resp.status, url, JSDOM)))
    ELSE IF resp.status >= 500
         THEN Thrown(wrapError(httpServerError(resp.status, url, JSDOM)))
    ELSE PageResult(JSDOM, resp.page, resp.status)

\* playwrightFetch's catch block: error.message.includes('Timeout') is
\* case-sensitive and is asked of every error thrown inside the try,
\* the HTTP errors included
playwrightCatch(url, error) ==
    IF "Timeout" \in error.msg
    THEN Thrown(timeoutError(url, PLAYWRIGHT))
    ELSE Thrown(wrapError(error))

\* playwrightFetch once getBrowser has returned a browser; connected says
\* whether that browser is still running when the context is opened
playwrightFetch(url, resp, connected) ==
    IF ~UrlValid(url) THEN Thrown(UrlError(url, PLAYWRIGHT))
    ELSE IF ~connected
         THEN playwrightCatch(url, RawError("Error", {}, PLAYWRIGHT))
    ELSE IF resp.kind = "reject"
         THEN playwrightCatch(url, RawError(resp.name, resp.msg, PLAYWRIGHT))
    ELSE IF resp.status >= 400 /\ resp.status < 500
         THEN playwrightCatch(url, httpClientError(resp.status, url, PLAYWRIGHT))
    ELSE IF resp.status >= 500
         THEN playwrightCatch(url, httpServerError(resp.status, url, PLAYWRIGHT))
    ELSE PageResult(PLAYWRIGHT, resp.page, resp.status)

\* what chromium.launch rejects with ("Executable doesn't exist at ...")
LaunchError == RawError("Error", {}, PLAYWRIGHT)

(***************************************************************************)
(* State.                                                                  *)
(***************************************************************************)
VARIABLES
    options,               \* Engine.options: maxTier, autoEscalate
    currentTier,           \* Engine.currentTier
    usedPlaywright,        \* Engine.usedPlaywright
    browserInstance,       \* tier3-playwright.ts: 0 is null, else a browser
    browserLaunchPromise,  \* tier3-playwright.ts: "null", "pending", "rejected"
    live,                  \* the browser processes that are running
    launches,              \* browsers started so far
    frame,                 \* each engine's call in progress
    log,                   \* observer: tiers whose fetcher this fetch invoked
    inflight,              \* observer: tiers whose fetcher has not settled
    outs,                  \* observer: what each invoked fetcher settled with
    ret,                   \* observer: what the call returned or threw
    pinned,                \* observer: tier of a setTier no fetch followed yet
    everTier3,             \* observer: a fetch of the engine invoked tier 3
    closeBrowserCalls,     \* observer: closeBrowser invocations of this close
    obtained,              \* observer: running browsers getBrowser gave the
                           \* engine's fetches since the engine was last closed
    embeddingPipeline,     \* semantic module: 0 is null, else a loaded model
    pipelineLoading,       \* semantic module: "null", "pending", "resolved", "rejected"
    launchCalls,           \* chromium.launch() calls made by getBrowser
    loads,                 \* pipeline() calls made by getEmbeddingPipeline
    launchState,           \* the promise of each chromium.launch() call
    loadState,             \* the promise of each pipeline() call
    caller,                \* each concurrent caller of a singleton getter
    call,                  \* the library call made last: function and arguments
    result                 \* what the library call made last returned

vars ==
    << options, currentTier, usedPlaywright, browserInstance,
       browserLaunchPromise, live, launches, frame, log, inflight, outs, ret,
       pinned, everTier3, closeBrowserCalls, obtained, embeddingPipeline,
       pipelineLoading, launchCalls, loads, launchState, loadState, caller,
       call, result >>

\* the state outside the engine: the singleton getters' callers and the
\* calls of the pure library functions
pipelineVars == << embeddingPipeline, pipelineLoading, loads, loadState >>
callerVars == << launchCalls, launchState, caller >>
libraryVars == << pipelineVars, callerVars, call, result >>

engineVars == << options, currentTier, usedPlaywright >>
browserVars == << browserInstance, browserLaunchPromise, live, launches >>

\* the concurrent callers of getBrowser and getEmbeddingPipeline
Callers == 1..MaxCallers

\* a caller that has not called yet; once it has, fn is the getter, pc where
\* it stands ("launching" awaits the promise it created, "waiting" the one
\* it was handed, "done", "failed"), promise the launch or load it awaits,
\* via how the getter answered and got the instance it received
IdleCaller == [fn |-> "none", pc |-> "idle", promise |-> 0, via |-> "none", got |-> 0]

NoCall == [fn |-> "none"]

\* nothing loaded, no getter called, no library call made
LibraryAtRest ==
    /\ embeddingPipeline = 0
    /\ pipelineLoading = "null"
    /\ launchCalls = 0
    /\ loads = 0
    /\ launchState = << >>
    /\ loadState = << >>
    /\ caller = [c \in Callers |-> IdleCaller]
    /\ call = NoCall
    /\ result = NoCall

IdleFrame == [op |-> "none", pc |-> "idle", url |-> "none", tier |-> 0, browser |-> 0]
NoReturn == [kind |-> "none", value |-> Thrown(NoError)]

\* new Engine(config, options): the caller chooses maxTier and autoEscalate
Init ==
    /\ options \in [Engines -> [maxTier : Tiers, autoEscalate : BOOLEAN]]
    /\ currentTier = [e \in Engines |-> CHEERIO]
    /\ usedPlaywright = [e \in Engines |-> FALSE]
    /\ browserInstance = 0
    /\ browserLaunchPromise = "null"
    /\ live = {}
    /\ launches = 0
    /\ frame = [e \in Engines |-> IdleFrame]
    /\ log = [e \in Engines |-> << >>]
    /\ inflight = [e \in Engines |-> {}]
    /\ outs = [e \in Engines |-> << >>]
    /\ ret = [e \in Engines |-> NoReturn]
    /\ pinned = [e \in Engines |-> 0]
    /\ everTier3 = [e \in Engines |-> FALSE]
    /\ closeBrowserCalls = [e \in Engines |-> 0]
    /\ obtained = [e \in Engines |-> {}]
    /\ LibraryAtRest

\* One browsing flow at a time: a call starts when no other is in progress.
Quiet == \A e \in Engines : frame[e].pc = "idle"

(***************************************************************************)
(* Engine.fetch.                                                           *)
(***************************************************************************)
\* every fetch starts at tier 1, whatever autoEscalate says
StartTierAlwaysStatic(opts) == CHEERIO

\* the starting tier
StartTier(opts) == IF opts.autoEscalate THEN CHEERIO ELSE opts.maxTier

\* browserInstance && browserInstance.isConnected()
Connected == browserInstance # 0 /\ browserInstance \in live

\* Where a fetcher invoked at tier suspends: its URL check has thrown
\* ("rejected"), its network request is out ("fetching"), or, for tier 3,
\* getBrowser has returned the running browser ("navigating"), the launch
\* promise of another call ("waiting") or started a launch ("launching").
Suspends(url, tier) ==
    IF ~UrlValid(url) THEN "rejected"
    ELSE IF tier # PLAYWRIGHT THEN "fetching"
    ELSE IF Connected THEN "navigating"
    ELSE IF browserLaunchPromise # "null" THEN "waiting"
    ELSE "launching"

\* getBrowser, entered by a fetcher that now awaits its own launch, has set
\* browserLaunchPromise = chromium.launch(...)
LaunchStarted(e) ==
    browserLaunchPromise' =
        IF frame'[e].pc = "launching" THEN "pending" ELSE browserLaunchPromise

\* The call leaves Engine.fetch: `return {...}` or `throw`.
Leave(e, kind, value) ==
    /\ frame' = [frame EXCEPT ![e].pc = "done"]
    /\ ret' = [ret EXCEPT ![e] = [kind |-> kind, value |-> value]]
    /\ UNCHANGED << currentTier, usedPlaywright, log, everTier3, obtained >>

\* One turn of `while (tier <= this.options.maxTier)` up to the await of
\* the tier's fetcher.
Attempt(e, url, tier) ==
    IF tier <= options[e].maxTier
    THEN LET pc == Suspends(url, tier) IN
         /\ currentTier' = [currentTier EXCEPT ![e] = tier]
         /\ usedPlaywright' =
                [usedPlaywright EXCEPT ![e] = @ \/ tier = PLAYWRIGHT]
         /\ everTier3' = [everTier3 EXCEPT ![e] = @ \/ tier = PLAYWRIGHT]
         /\ obtained' = [obtained EXCEPT ![e] =
                IF pc = "navigating" THEN @ \cup {browserInstance} ELSE @]
         /\ frame' = [frame EXCEPT ![e] =
                [op |-> "fetch", pc |-> pc, url |-> url, tier |-> tier,
                 browser |-> IF pc = "navigating" THEN browserInstance ELSE 0]]
         /\ log' = [log EXCEPT ![e] = Append(@, tier)]
         /\ ret' = ret
    ELSE \* "Should never reach here"
         Leave(e, "throw",
               Thrown(BrowserError("NETWORK_ERROR", {}, FALSE, 0)))

\* the catch block without its HTTP short-circuit: a 4xx/5xx is retried at
\* the next tier like any other failure
EngineDecisionRetriesHttp(opts, tier, out) ==
    IF out.ok
    THEN IF opts.autoEscalate /\ tier < opts.maxTier /\ shouldEscalate(out.html, tier)
         THEN [do |-> "escalate", value |-> out]
         ELSE [do |-> "return", value |-> [out EXCEPT !.tierUsed = tier]]
    ELSE IF opts.autoEscalate /\ tier < opts.maxTier
         THEN [do |-> "escalate", value |-> out]
    ELSE [do |-> "throw", value |-> Thrown(wrapError(out.error))]

\* the catch block without its retry: every failure is thrown at once
EngineDecisionNeverRetries(opts, tier, out) ==
    IF out.ok
    THEN IF opts.autoEscalate /\ tier < opts.maxTier /\ shouldEscalate(out.html, tier)
         THEN [do |-> "escalate", value |-> out]
         ELSE [do |-> "return", value |-> [out EXCEPT !.tierUsed = tier]]
    ELSE [do |-> "throw", value |-> Thrown(wrapError(out.error))]

\* What Engine.fetch does with the outcome of the fetcher it awaited.
EngineDecision(opts, tier, out) ==
    IF out.ok
    THEN IF opts.autoEscalate /\ tier < opts.maxTier /\ shouldEscalate(out.html, tier)
         THEN [do |-> "escalate", value |-> out]
         ELSE [do |-> "return", value |-> [out EXCEPT !.tierUsed = tier]]
    ELSE IF /\ out.error.cls = "BrowserError"
            /\ out.error.code \in {"HTTP_CLIENT_ERROR", "HTTP_SERVER_ERROR"}
         THEN [do |-> "throw", value |-> out]
    ELSE IF opts.autoEscalate /\ tier < opts.maxTier
         THEN [do |-> "escalate", value |-> out]
    ELSE [do |-> "throw", value |-> Thrown(wrapError(out.error))]

\* the loop variable is not advanced: the engine calls the same fetcher again
NextTierStays(tier) == tier

\* tier++
NextTier(tier) == tier + 1

\* The awaited fetcher settled with out: the rest of the loop body, and the
\* next turn of the loop if the engine escalates.
Resume(e, out) ==
    LET tier == frame[e].tier
        d == EngineDecision(options[e], tier, out)
    IN  /\ outs' = [outs EXCEPT ![e] = Append(@, out)]
        /\ inflight' = [inflight EXCEPT ![e] =
               (@ \ {tier}) \cup
                   (IF d.do = "escalate" /\ NextTier(tier) <= options[e].maxTier
                    THEN {NextTier(tier)} ELSE {})]
        /\ IF d.do = "escalate"
           THEN Attempt(e, frame[e].url, NextTier(tier))
           ELSE Leave(e, d.do, d.value)

\* Engine.fetch up to the await of its first fetcher
EngineFetch(e, url) ==
    /\ LET tier == StartTier(options[e]) IN
       /\ Attempt(e, url, tier)
       /\ inflight' = [inflight EXCEPT ![e] =
              IF tier <= options[e].maxTier THEN {tier} ELSE {}]
    /\ LaunchStarted(e)
    /\ UNCHANGED << options, browserInstance, live, launches, outs, pinned,
                    closeBrowserCalls >>
    /\ UNCHANGED libraryVars

\* engine.fetch(url) is called
Fetch(e, url) == Quiet /\ EngineFetch(e, url)

\* the fetcher's URL check threw: its promise rejects
UrlRejected(e) ==
    /\ frame[e].pc = "rejected"
    /\ Resume(e, Thrown(UrlError(frame[e].url, frame[e].tier)))
    /\ LaunchStarted(e)
    /\ UNCHANGED << options, browserInstance, live, launches, pinned,
                    closeBrowserCalls >>
    /\ UNCHANGED libraryVars

\* the network answers the fetch() of tier 1 or 2
FetchSettles(e, resp) ==
    /\ frame[e].pc = "fetching"
    /\ Resume(e, IF frame[e].tier = CHEERIO
                 THEN cheerioFetch(frame[e].url, resp)
                 ELSE jsdomFetch(frame[e].url, resp))
    /\ LaunchStarted(e)
    /\ UNCHANGED << options, browserInstance, live, launches, pinned,
                    closeBrowserCalls >>
    /\ UNCHANGED libraryVars

(***************************************************************************)
(* Tier 3: getBrowser and the page.                                        *)
(***************************************************************************)
\* the fetches that getBrowser answers when the launch e awaits resolves:
\* e's own and those getBrowser handed the same promise
Launched(e) == {e} \cup {f \in Engines : frame[f].pc = "waiting"}

\* chromium.launch resolves: getBrowser stores the browser, clears the
\* promise and returns; every playwrightFetch that awaited the promise goes
\* on to open its page
LaunchResolves(e) ==
    /\ frame[e].pc = "launching"
    /\ launches < MaxLaunches
    /\ launches' = launches + 1
    /\ live' = live \cup {launches + 1}
    /\ browserInstance' = launches + 1
    /\ browserLaunchPromise' = "null"
    /\ frame' = [f \in Engines |->
           IF f \in Launched(e)
           THEN [frame[f] EXCEPT !.pc = "navigating", !.browser = launches + 1]
           ELSE frame[f]]
    /\ obtained' = [f \in Engines |->
           IF f \in Launched(e) THEN obtained[f] \cup {launches + 1}
           ELSE obtained[f]]
    /\ UNCHANGED << engineVars, log, inflight, outs, ret, pinned, everTier3,
                    closeBrowserCalls >>
    /\ UNCHANGED libraryVars

\* chromium.launch rejects: getBrowser throws at its await, with
\* browserLaunchPromise left holding the rejected promise
LaunchRejects(e) ==
    /\ frame[e].pc = "launching"
    /\ browserLaunchPromise' = "rejected"
    /\ Resume(e, playwrightCatch(frame[e].url, LaunchError))
    /\ UNCHANGED << options, browserInstance, live, launches, pinned,
                    closeBrowserCalls >>
    /\ UNCHANGED libraryVars

\* getBrowser returned a launch promise that has rejected
SharedLaunchRejected(e) ==
    /\ frame[e].pc = "waiting"
    /\ browserLaunchPromise = "rejected"
    /\ Resume(e, playwrightCatch(frame[e].url, LaunchError))
    /\ UNCHANGED << options, browserVars, pinned, closeBrowserCalls >>
    /\ UNCHANGED libraryVars

\* the page answers (newContext, newPage, goto, content)
Navigated(e, resp) ==
    /\ frame[e].pc = "navigating"
    /\ Resume(e, playwrightFetch(frame[e].url, resp, frame[e].browser \in live))
    /\ UNCHANGED << options, browserVars, pinned, closeBrowserCalls >>
    /\ UNCHANGED libraryVars

(***************************************************************************)
(* Engine.setTier, Engine.close, closeBrowser.                             *)
(***************************************************************************)
SetTier(e, tier) ==
    /\ Quiet
    /\ IF tier > options[e].maxTier
       THEN /\ ret' = [ret EXCEPT ![e] =
                   [kind |-> "throw",
                    value |-> Thrown(BrowserError("NETWORK_ERROR", {}, FALSE, 0))]]
            /\ UNCHANGED << options, currentTier, pinned >>
       ELSE /\ currentTier' = [currentTier EXCEPT ![e] = tier]
            /\ options' = [options EXCEPT ![e].autoEscalate = FALSE]
            /\ pinned' = [pinned EXCEPT ![e] = tier]
            /\ ret' = [ret EXCEPT ![e] = [kind |-> "void", value |-> Thrown(NoError)]]
    /\ frame' = [frame EXCEPT ![e].op = "setTier", ![e].pc = "done"]
    /\ UNCHANGED << usedPlaywright, browserVars, log, inflight, outs, everTier3,
                    closeBrowserCalls, obtained >>
    /\ UNCHANGED libraryVars

\* close() without its guard
ClosesBrowserAlways(e) == TRUE

\* close() that leaves the shared browser alone
ClosesBrowserNever(e) == FALSE

\* Engine.close: if (this.usedPlaywright)
ClosesBrowser(e) == usedPlaywright[e]

\* Engine.close: closeBrowser() if the engine used tier 3, and closeBrowser
\* awaits browserInstance.close() if there is an instance
EngineClose(e) ==
    /\ obtained' = [obtained EXCEPT ![e] = {}]
    /\ closeBrowserCalls' =
           [closeBrowserCalls EXCEPT ![e] = IF ClosesBrowser(e) THEN 1 ELSE 0]
    /\ IF ClosesBrowser(e) /\ browserInstance # 0
       THEN /\ frame' = [frame EXCEPT ![e].op = "close", ![e].pc = "closing",
                                      ![e].browser = browserInstance]
            /\ ret' = ret
       ELSE /\ frame' = [frame EXCEPT ![e].op = "close", ![e].pc = "done"]
            /\ ret' = [ret EXCEPT ![e] = [kind |-> "void", value |-> Thrown(NoError)]]
    /\ UNCHANGED << engineVars, browserVars, log, inflight, outs, pinned,
                    everTier3 >>
    /\ UNCHANGED libraryVars

\* engine.close() is called
Close(e) == Quiet /\ EngineClose(e)

\* browserInstance.close() resolves: the browser is gone, and closeBrowser
\* sets browserInstance = null
CloseSettles(e) ==
    /\ frame[e].pc = "closing"
    /\ live' = live \ {frame[e].browser}
    /\ browserInstance' = 0
    /\ frame' = [frame EXCEPT ![e].pc = "done"]
    /\ ret' = [ret EXCEPT ![e] = [kind |-> "void", value |-> Thrown(NoError)]]
    /\ obtained' = [f \in Engines |-> obtained[f] \ {frame[e].browser}]
    /\ UNCHANGED << engineVars, browserLaunchPromise, launches, log, inflight,
                    outs, pinned, everTier3, closeBrowserCalls >>
    /\ UNCHANGED libraryVars

\* the caller has the call's result; the observers of the call are reset
Return(e) ==
    /\ frame[e].pc = "done"
    /\ frame' = [frame EXCEPT ![e] = IdleFrame]
    /\ log' = [log EXCEPT ![e] = << >>]
    /\ inflight' = [inflight EXCEPT ![e] = {}]
    /\ outs' = [outs EXCEPT ![e] = << >>]
    /\ ret' = [ret EXCEPT ![e] = NoReturn]
    /\ pinned' = [pinned EXCEPT ![e] = IF frame[e].op = "fetch" THEN 0 ELSE @]
    /\ closeBrowserCalls' = [closeBrowserCalls EXCEPT ![e] = 0]
    /\ UNCHANGED << engineVars, browserVars, everTier3, obtained >>
    /\ UNCHANGED libraryVars

Next ==
    \E e \in Engines :
        \/ \E url \in Urls : Fetch(e, url)
        \/ UrlRejected(e)
        \/ \E resp \in HttpResponses \cup FetchRejections : FetchSettles(e, resp)
        \/ LaunchResolves(e)
        \/ LaunchRejects(e)
        \/ SharedLaunchRejected(e)
        \/ \E resp \in HttpResponses \cup GotoRejections : Navigated(e, resp)
        \/ \E tier \in Tiers : SetTier(e, tier)
        \/ Close(e)
        \/ CloseSettles(e)
        \/ Return(e)

Spec == Init /\ [][Next]_vars

(***************************************************************************)
(* Properties of Engine.fetch.                                             *)
(***************************************************************************)
IsHttpError(out) ==
    /\ ~out.ok
    /\ out.error.code \in {"HTTP_CLIENT_ERROR", "HTTP_SERVER_ERROR"}

Fetching(e) == frame[e].op = "fetch"

\* C1: within one fetch call the fetchers are invoked one at a time (a
\* fetcher is invoked only once every earlier one has settled), in strictly
\* increasing tier order, each tier at most once, and never above the
\* engine's ceiling maxTier.
C1_TierOrder ==
    \A e \in Engines :
        /\ Cardinality(inflight[e]) <= 1
        /\ Len(log[e]) = Len(outs[e]) + Cardinality(inflight[e])
        /\ \A i \in 1..Len(log[e]) :
               /\ log[e][i] \in Tiers
               /\ log[e][i] <= options[e].maxTier
               /\ \A j \in 1..Len(log[e]) : i < j => log[e][i] < log[e][j]

\* a fetch that went through all three tiers and has finished
C1_Witness ==
    \E e \in Engines :
        /\ frame[e].pc = "done"
        /\ log[e] = << CHEERIO, JSDOM, PLAYWRIGHT >>
        /\ Len(outs[e]) = 3

\* C2 (as claimed): a fetch of a malformed or non-http(s) URL invokes no
\* fetcher at all and ends in an unrecoverable error.
C2_InvalidUrlNoTier ==
    \A e \in Engines :
        (Fetching(e) /\ ~UrlValid(frame[e].url)) =>
            /\ log[e] = << >>
            /\ frame[e].pc = "done" =>
                   (ret[e].kind = "throw" /\ ~ret[e].value.error.recoverable)

\* C3: when a fetcher fails with an HTTP 4xx/5xx error, that is the last
\* fetcher of the call: the call has ended, throwing that very error, and
\* no higher tier was invoked.
C3_HttpErrorStops ==
    \A e \in Engines : \A i \in 1..Len(outs[e]) :
        IsHttpError(outs[e][i]) =>
            /\ i = Len(outs[e])
            /\ Len(log[e]) = i
            /\ frame[e].pc = "done"
            /\ ret[e] = [kind |-> "throw", value |-> outs[e][i]]

\* tier 1 answered 404 or 429 or 500 although escalation to a higher tier
\* was allowed
C3_Witness ==
    \E e \in Engines :
        /\ options[e].autoEscalate /\ options[e].maxTier = PLAYWRIGHT
        /\ Len(outs[e]) = 1 /\ log[e] = << CHEERIO >>
        /\ IsHttpError(outs[e][1])
        /\ outs[e][1].error.recoverable
        /\ outs[e][1].error.code = "HTTP_CLIENT_ERROR"

\* markup the claim says looks JavaScript-dependent: a body with under 100
\* visible characters, or the root container of a single-page app
LooksJsDependent(page) ==
    \/ Html(page).body /\ Html(page).text < 100
    \/ "id=\"root\"" \in Html(page).subs

\* C4: with auto-escalation on and a ceiling of 2 or more, a tier 1 success
\* whose markup looks JavaScript-dependent is not returned: tier 2 is
\* invoked next, and a PageResult the call returns has tierUsed 2 or 3.
C4_EscalatesFromStatic ==
    \A e \in Engines :
        ( /\ Fetching(e)
          /\ options[e].autoEscalate /\ options[e].maxTier >= JSDOM
          /\ Len(outs[e]) >= 1 /\ outs[e][1].ok
          /\ LooksJsDependent(outs[e][1].html) ) =>
            /\ Len(log[e]) >= 2
            /\ log[e][1] = CHEERIO /\ log[e][2] = JSDOM
            /\ ret[e].kind = "return" => ret[e].value.tierUsed \in {JSDOM, PLAYWRIGHT}

\* tier 1 fetched a page with much markup and little text, and the call
\* returned tier 2's result
C4_Witness ==
    \E e \in Engines :
        /\ Fetching(e) /\ options[e].autoEscalate
        /\ Len(outs[e]) = 2 /\ outs[e][1].ok
        /\ outs[e][1].html = "tag-heavy"
        /\ ret[e].kind = "return" /\ ret[e].value.tierUsed = JSDOM

\* C5 (as claimed): the fetch that follows setTier(t) invokes tier t's
\* fetcher and no other, and a PageResult it returns has tierUsed = t.
C5_SetTierPins ==
    \A e \in Engines :
        (Fetching(e) /\ pinned[e] # 0) =>
            /\ log[e] = << pinned[e] >>
            /\ ret[e].kind = "return" => ret[e].value.tierUsed = pinned[e]

IsOtherFailure(out) == ~out.ok /\ ~IsHttpError(out)

ErrorCodes ==
    { "NETWORK_ERROR", "DNS_ERROR", "TIMEOUT", "SSL_ERROR", "HTTP_CLIENT_ERROR",
      "HTTP_SERVER_ERROR", "JS_ERROR", "RESOURCE_BLOCKED", "PARSE_ERROR",
      "ENCODING_ERROR", "EXTRACTION_ERROR", "SESSION_NOT_FOUND",
      "SESSION_EXPIRED" }

IsClassified(error) ==
    /\ error.cls = "BrowserError"
    /\ error.code \in ErrorCodes
    /\ error.recoverable \in BOOLEAN

\* C6: when a fetcher fails with an error that is not an HTTP error, the
\* engine invokes the next tier's fetcher if auto-escalation is on and the
\* tier is below the ceiling; otherwise the call ends there, throwing that
\* tier's error as a classified BrowserError.
C6_OtherFailureRetries ==
    \A e \in Engines : \A i \in 1..Len(outs[e]) :
        IsOtherFailure(outs[e][i]) =>
            IF options[e].autoEscalate /\ log[e][i] < options[e].maxTier
            THEN /\ Len(log[e]) > i
                 /\ log[e][i + 1] = log[e][i] + 1
            ELSE /\ i = Len(outs[e]) /\ Len(log[e]) = i
                 /\ frame[e].pc = "done"
                 /\ ret[e].kind = "throw"
                 /\ IsClassified(ret[e].value.error)
                 /\ ret[e].value.error.at = log[e][i]
                 /\ ret[e].value.error.code = outs[e][i].error.code

\* tier 1 timed out, tier 2 could not resolve the host and the call ended
\* with tier 2's error at a ceiling of 2
C6_Witness ==
    \E e \in Engines :
        /\ options[e].autoEscalate /\ options[e].maxTier = JSDOM
        /\ Len(outs[e]) = 2
        /\ IsOtherFailure(outs[e][1]) /\ outs[e][1].error.code = "TIMEOUT"
        /\ IsOtherFailure(outs[e][2])
        /\ ret[e].kind = "throw" /\ ret[e].value.error.code = "DNS_ERROR"

\* C7: with auto-escalation off a fetch invokes the ceiling tier's fetcher
\* and no other; what that fetcher settles with is what the call returns
\* (with tierUsed = ceiling, whatever the markup looks like) or throws.
C7_NoEscalationSingleTier ==
    \A e \in Engines :
        (Fetching(e) /\ ~options[e].autoEscalate) =>
            /\ log[e] = << options[e].maxTier >>
            /\ Len(outs[e]) = 1 =>
                   /\ frame[e].pc = "done"
                   /\ outs[e][1].ok =>
                          /\ ret[e].kind = "return"
                          /\ ret[e].value.tierUsed = options[e].maxTier
                          /\ ret[e].value.html = outs[e][1].html
                   /\ ~outs[e][1].ok =>
                          /\ ret[e].kind = "throw"
                          /\ ret[e].value.error = outs[e][1].error

\* an engine built with autoEscalate = false and ceiling 3 returned tier 3's
\* result
C7_Witness ==
    \E e \in Engines :
        /\ Fetching(e) /\ ~options[e].autoEscalate /\ pinned[e] = 0
        /\ options[e].maxTier = PLAYWRIGHT
        /\ ret[e].kind = "return" /\ ret[e].value.html = "spa-root"

\* C8 (as claimed): when tier 1 succeeded, was escalated, and every higher
\* tier failed with a non-HTTP error, the call returns tier 1's PageResult.
C8_GracefulDegradation ==
    \A e \in Engines :
        ( /\ Fetching(e) /\ frame[e].pc = "done"
          /\ Len(outs[e]) >= 2
          /\ log[e][1] = CHEERIO /\ outs[e][1].ok
          /\ \A i \in 2..Len(outs[e]) : IsOtherFailure(outs[e][i]) ) =>
            /\ ret[e].kind = "return"
            /\ ret[e].value = outs[e][1]

\* C9: whatever leaves Engine.fetch as a failure is a BrowserError carrying
\* an ErrorCode and a recoverable flag.
C9_ThrowsClassified ==
    \A e \in Engines :
        (Fetching(e) /\ ret[e].kind = "throw") =>
            IsClassified(ret[e].value.error)

\* a failure no classifier rule matches left the call, from tier 2
C9_Witness ==
    \E e \in Engines :
        /\ Fetching(e) /\ ret[e].kind = "throw"
        /\ ret[e].value.error.code = "NETWORK_ERROR"
        /\ ~ret[e].value.error.recoverable
        /\ ret[e].value.error.at = JSDOM
        /\ UrlValid(frame[e].url)

(***************************************************************************)
(* Properties of Engine.close.                                             *)
(***************************************************************************)
\* C10: close() of an engine none of whose fetches invoked tier 3 does not
\* invoke closeBrowser, does not wait for a browser to close, and leaves
\* browserInstance, browserLaunchPromise and the running browsers as they
\* were; closeBrowser is invoked only by engines that invoked tier 3.
C10_CloseOnlyAfterTier3 ==
    [][ \A e \in Engines :
          /\ closeBrowserCalls'[e] > 0 => everTier3[e]
          /\ frame'[e].pc = "closing" => everTier3[e]
          /\ (~everTier3[e] /\ frame[e].pc = "idle" /\ frame'[e].op = "close") =>
                 /\ frame'[e].pc = "done"
                 /\ UNCHANGED browserVars ]_vars

\* an engine that fetched at tiers 1 and 2 only has closed while another
\* engine's browser is running
C10_Witness ==
    \E e \in Engines :
        /\ frame[e].op = "close" /\ frame[e].pc = "done"
        /\ ~everTier3[e]
        /\ options[e].autoEscalate /\ currentTier[e] = JSDOM
        /\ browserInstance # 0 /\ browserInstance \in live

(***************************************************************************)
(* The lazy singletons under concurrent first use: getBrowser              *)
(* (tier3-playwright.ts) and getEmbeddingPipeline (the semantic module).   *)
(* Each action is the run of one caller between two awaits, or the         *)
(* environment settling a launch or a load.                                *)
(***************************************************************************)
\* a browserInstance left by an earlier run whose isConnected() is false
Disconnected == -1

\* getBrowser without `if (browserLaunchPromise) return browserLaunchPromise`
getBrowserUnguarded(connected, promise) ==
    IF connected THEN "instance" ELSE "launch"

\* getBrowser up to its first await: it returns the connected instance, or
\* the launch promise another call created, or creates the launch promise
getBrowser(connected, promise) ==
    IF connected THEN "instance"
    ELSE IF promise # "null" THEN "shared"
    ELSE "launch"

\* getEmbeddingPipeline up to its first await, likewise
getEmbeddingPipeline(pipeline, loading) ==
    IF pipeline # 0 THEN "instance"
    ELSE IF loading # "null" THEN "shared"
    ELSE "launch"

\* the caller record after the getter answered through via
Entered(fn, via, instance, promise) ==
    [fn |-> fn,
     pc |-> CASE via = "instance" -> "done"
              [] via = "shared" -> "waiting"
              [] via = "launch" -> "launching",
     promise |-> IF via = "instance" THEN 0 ELSE promise,
     via |-> via,
     got |-> IF via = "instance" THEN instance ELSE 0]

\* a caller calls getBrowser()
GetBrowser(c) ==
    /\ caller[c].pc = "idle"
    /\ LET via == getBrowser(Connected, browserLaunchPromise)
           promise == IF via = "launch" THEN launchCalls + 1 ELSE launchCalls
       IN  /\ caller' = [caller EXCEPT ![c] =
                   Entered("getBrowser", via, browserInstance, promise)]
           /\ launchCalls' = promise
           /\ launchState' =
                  IF via = "launch" THEN Append(launchState, "pending")
                  ELSE launchState
           /\ browserLaunchPromise' =
                  IF via = "launch" THEN "pending" ELSE browserLaunchPromise
    /\ UNCHANGED << engineVars, browserInstance, live, launches, frame, log,
                    inflight, outs, ret, pinned, everTier3, closeBrowserCalls, obtained,
                    pipelineVars, call, result >>

\* chromium.launch call k settles: a browser runs, or the launch failed
LaunchSettles(k, ok) ==
    /\ k \in 1..launchCalls
    /\ launchState[k] = "pending"
    /\ launchState' = [launchState EXCEPT ![k] = IF ok THEN "resolved" ELSE "rejected"]
    /\ live' = IF ok THEN live \cup {k} ELSE live
    /\ launches' = IF ok THEN launches + 1 ELSE launches
    /\ browserLaunchPromise' =
           IF k = launchCalls /\ browserLaunchPromise # "null"
           THEN launchState'[k] ELSE browserLaunchPromise
    /\ UNCHANGED << engineVars, browserInstance, frame, log, inflight, outs, ret,
                    pinned, everTier3, closeBrowserCalls, obtained, pipelineVars,
                    launchCalls, caller, call, result >>

\* getBrowser resumes after `await browserLaunchPromise`: it stores the
\* browser and clears the promise, or throws with the promise left in place
LaunchContinues(c) ==
    /\ caller[c].fn = "getBrowser" /\ caller[c].pc = "launching"
    /\ launchState[caller[c].promise] # "pending"
    /\ IF launchState[caller[c].promise] = "resolved"
       THEN /\ browserInstance' = caller[c].promise
            /\ browserLaunchPromise' = "null"
            /\ caller' = [caller EXCEPT ![c].pc = "done", ![c].got = caller[c].promise]
       ELSE /\ caller' = [caller EXCEPT ![c].pc = "failed"]
            /\ UNCHANGED << browserInstance, browserLaunchPromise >>
    /\ UNCHANGED << engineVars, live, launches, frame, log, inflight, outs, ret,
                    pinned, everTier3, closeBrowserCalls, obtained, pipelineVars,
                    launchCalls, launchState, call, result >>

\* a caller calls getEmbeddingPipeline()
GetEmbeddingPipeline(c) ==
    /\ caller[c].pc = "idle"
    /\ LET via == getEmbeddingPipeline(embeddingPipeline, pipelineLoading)
           promise == IF via = "launch" THEN loads + 1 ELSE loads
       IN  /\ caller' = [caller EXCEPT ![c] =
                   Entered("getEmbeddingPipeline", via, embeddingPipeline, promise)]
           /\ loads' = promise
           /\ loadState' =
                  IF via = "launch" THEN Append(loadState, "pending") ELSE loadState
           /\ pipelineLoading' =
                  IF via = "launch" THEN "pending" ELSE pipelineLoading
    /\ UNCHANGED << engineVars, browserVars, frame, log, inflight, outs, ret,
                    pinned, everTier3, closeBrowserCalls, obtained, embeddingPipeline,
                    launchCalls, launchState, call, result >>

\* pipeline() call k settles: the model is loaded, or the load failed
LoadSettles(k, ok) ==
    /\ k \in 1..loads
    /\ loadState[k] = "pending"
    /\ loadState' = [loadState EXCEPT ![k] = IF ok THEN "resolved" ELSE "rejected"]
    /\ pipelineLoading' =
           IF k = loads /\ pipelineLoading # "null"
           THEN loadState'[k] ELSE pipelineLoading
    /\ UNCHANGED << engineVars, browserVars, frame, log, inflight, outs, ret,
                    pinned, everTier3, closeBrowserCalls, obtained, embeddingPipeline,
                    loads, callerVars, call, result >>

\* getEmbeddingPipeline resumes after `await pipelineLoading`
LoadContinues(c) ==
    /\ caller[c].fn = "getEmbeddingPipeline" /\ caller[c].pc = "launching"
    /\ loadState[caller[c].promise] # "pending"
    /\ IF loadState[caller[c].promise] = "resolved"
       THEN /\ embeddingPipeline' = caller[c].promise
            /\ pipelineLoading' = "null"
            /\ caller' = [caller EXCEPT ![c].pc = "done", ![c].got = caller[c].promise]
       ELSE /\ caller' = [caller EXCEPT ![c].pc = "failed"]
            /\ UNCHANGED << embeddingPipeline, pipelineLoading >>
    /\ UNCHANGED << engineVars, browserVars, frame, log, inflight, outs, ret,
                    pinned, everTier3, closeBrowserCalls, obtained, loads, loadState,
                    launchCalls, launchState, call, result >>

\* the promise a getter handed to a caller settles for that caller
SharedSettles(c) ==
    /\ caller[c].pc = "waiting"
    /\ LET state == IF caller[c].fn = "getBrowser"
                    THEN launchState[caller[c].promise]
                    ELSE loadState[caller[c].promise]
       IN  /\ state # "pending"
           /\ caller' = [caller EXCEPT ![c] =
                  IF state = "resolved"
                  THEN [@ EXCEPT !.pc = "done", !.got = caller[c].promise]
                  ELSE [@ EXCEPT !.pc = "failed"]]
    /\ UNCHANGED << engineVars, browserVars, frame, log, inflight, outs, ret,
                    pinned, everTier3, closeBrowserCalls, obtained, pipelineVars,
                    launchCalls, launchState, call, result >>

\* no engine call in progress, no browser connected, no model loaded
InitRace ==
    /\ options = [e \in Engines |-> [maxTier |-> PLAYWRIGHT, autoEscalate |-> TRUE]]
    /\ currentTier = [e \in Engines |-> CHEERIO]
    /\ usedPlaywright = [e \in Engines |-> FALSE]
    /\ browserInstance \in {0, Disconnected}
    /\ browserLaunchPromise = "null"
    /\ live = {}
    /\ launches = 0
    /\ frame = [e \in Engines |-> IdleFrame]
    /\ log = [e \in Engines |-> << >>]
    /\ inflight = [e \in Engines |-> {}]
    /\ outs = [e \in Engines |-> << >>]
    /\ ret = [e \in Engines |-> NoReturn]
    /\ pinned = [e \in Engines |-> 0]
    /\ everTier3 = [e \in Engines |-> FALSE]
    /\ closeBrowserCalls = [e \in Engines |-> 0]
    /\ obtained = [e \in Engines |-> {}]
    /\ LibraryAtRest

NextRace ==
    \/ \E c \in Callers : GetBrowser(c)
    \/ \E k \in 1..MaxCallers, ok \in BOOLEAN : LaunchSettles(k, ok)
    \/ \E c \in Callers : LaunchContinues(c)
    \/ \E c \in Callers : GetEmbeddingPipeline(c)
    \/ \E k \in 1..MaxCallers, ok \in BOOLEAN : LoadSettles(k, ok)
    \/ \E c \in Callers : LoadContinues(c)
    \/ \E c \in Callers : SharedSettles(c)

SpecRace == InitRace /\ [][NextRace]_vars

\* the callers that have called the getter fn
CallersOf(fn) == {c \in Callers : caller[c].fn = fn}

\* C11: under every interleaving of concurrent first uses of getBrowser (no
\* browser connected) and of getEmbeddingPipeline (no model loaded), nothing
\* is launched or loaded before the first call, exactly one launch and one
\* load are started once a call was made, every caller awaits that one
\* promise, and every caller that was answered holds its instance.
C11_SingletonsRaceGuarded ==
    /\ launchCalls = IF CallersOf("getBrowser") = {} THEN 0 ELSE 1
    /\ loads = IF CallersOf("getEmbeddingPipeline") = {} THEN 0 ELSE 1
    /\ CallersOf("getBrowser") = {} => live = {} /\ browserLaunchPromise = "null"
    /\ CallersOf("getEmbeddingPipeline") = {} =>
           embeddingPipeline = 0 /\ pipelineLoading = "null"
    /\ live \subseteq {1}
    /\ \A c \in Callers :
        /\ caller[c].pc \in {"launching", "waiting", "failed"} => caller[c].promise = 1
        /\ caller[c].pc = "done" => caller[c].got = 1

\* two callers raced on each singleton: one started the launch (the load),
\* the other was handed its promise, and all four hold the one instance
C11_Witness ==
    \E b1, b2, p1, p2 \in Callers :
        /\ caller[b1].fn = "getBrowser" /\ caller[b1].via = "launch"
        /\ caller[b2].fn = "getBrowser" /\ caller[b2].via = "shared"
        /\ caller[p1].fn = "getEmbeddingPipeline" /\ caller[p1].via = "launch"
        /\ caller[p2].fn = "getEmbeddingPipeline" /\ caller[p2].via = "shared"
        /\ \A c \in {b1, b2, p1, p2} : caller[c].pc = "done" /\ caller[c].got = 1
        /\ browserInstance = 1 /\ embeddingPipeline = 1

(***************************************************************************)
(* utils/tokens.ts.  A string is the sequence of its characters (UTF-16    *)
(* code units, what String.length counts); an absent string is undefined.  *)
(***************************************************************************)
undefined == << "undefined" >>

\* 'a'.repeat(n)
Repeat(ch, n) == [i \in 1..n |-> ch]

\* Math.ceil(n / d) for n >= 0, d > 0
MathCeil(n, d) == IF n % d = 0 THEN n \div d ELSE (n \div d) + 1

\* Math.round(n / d) in place of Math.ceil
estimateTokensRounds(text) ==
    IF text = undefined \/ Len(text) = 0 THEN 0
    ELSE (2 * Len(text) + 4) \div 8

\* estimateTokens: if (!text) return 0; return Math.ceil(text.length / 4)
estimateTokens(text) ==
    IF text = undefined \/ Len(text) = 0 THEN 0
    ELSE MathCeil(Len(text), 4)

CONTENT_PRIORITY ==
    [heading |-> 100, h1 |-> 100, h2 |-> 90, h3 |-> 80, h4 |-> 70, h5 |-> 60,
     h6 |-> 50, paragraph |-> 40, list |-> 35, blockquote |-> 25, code |-> 20,
     table |-> 15, link |-> 10, image |-> 5] @@ ("list-item" :> 30)

\* whitespace that String.prototype.trim removes
IsSpace(ch) == ch \in {" ", "\n", "\t"}

RECURSIVE trimStart(_)
trimStart(s) ==
    IF Len(s) > 0 /\ IsSpace(Head(s)) THEN trimStart(Tail(s)) ELSE s

RECURSIVE trimEnd(_)
trimEnd(s) ==
    IF Len(s) > 0 /\ IsSpace(s[Len(s)]) THEN trimEnd(SubSeq(s, 1, Len(s) - 1)) ELSE s

\* String.prototype.trim
trim(s) == trimEnd(trimStart(s))

\* A StructuredContent node: level 0 is an absent level, text undefined an
\* absent text, children << >> no children.
Node(type, level, text, children) ==
    [type |-> type, level |-> level, text |-> text, children |-> children]

RECURSIVE childrenText(_, _)
RECURSIVE getContentText(_)
\* for (const child of item.children) text += ' ' + getContentText(child)
childrenText(text, children) ==
    IF children = << >> THEN text
    ELSE childrenText(text \o << " " >> \o getContentText(Head(children)),
                      Tail(children))

getContentText(item) ==
    trim(childrenText(IF item.text = undefined THEN << >> ELSE item.text,
                      item.children))

\* `h${level}`
HeadingKey(level) ==
    CASE level = 1 -> "h1" [] level = 2 -> "h2" [] level = 3 -> "h3"
      [] level = 4 -> "h4" [] level = 5 -> "h5" [] level = 6 -> "h6"
      [] OTHER -> "h?"

\* every type has the priority of a paragraph
getPriorityFlat(type, level) == CONTENT_PRIORITY["paragraph"]

getPriority(type, level) ==
    IF type = "heading" /\ level # 0
    THEN IF HeadingKey(level) \in DOMAIN CONTENT_PRIORITY
         THEN CONTENT_PRIORITY[HeadingKey(level)]
         ELSE CONTENT_PRIORITY["heading"]
    ELSE IF type \in DOMAIN CONTENT_PRIORITY THEN CONTENT_PRIORITY[type] ELSE 0

\* options?.name ?? dflt
Option(opts, name, dflt) ==
    IF name \in DOMAIN opts THEN opts[name] ELSE dflt

\* String(n) for n >= 0
RECURSIVE Decimal(_)
Decimal(n) ==
    LET digit == << "0", "1", "2", "3", "4", "5", "6", "7", "8", "9" >>[(n % 10) + 1]
    IN  IF n < 10 THEN << digit >> ELSE Decimal(n \div 10) \o << digit >>

\* `[... ${itemsOmitted} more items truncated due to token limit ...]`
IndicatorText(itemsOmitted) ==
    << "[", ".", ".", ".", " " >> \o Decimal(itemsOmitted) \o
    << " ", "m", "o", "r", "e", " ", "i", "t", "e", "m", "s", " ",
       "t", "r", "u", "n", "c", "a", "t", "e", "d", " ", "d", "u", "e", " ",
       "t", "o", " ", "t", "o", "k", "e", "n", " ", "l", "i", "m", "i", "t",
       " ", ".", ".", ".", "]" >>

\* options.priorityOrder is ignored
ItemPriorityDefault(content, opts, i) ==
    getPriority(content[i].type, content[i].level)

\* the priority truncateContent gives item i: that of its type, overridden
\* by 1000 - idx when the type is at idx (from 0) of options.priorityOrder
\* (the last occurrence wins in `new Map`)
ItemPriority(content, opts, i) ==
    LET item == content[i]
        order == Option(opts, "priorityOrder", << >>)
        at == {k \in 1..Len(order) : order[k] = item.type}
    IN  IF at # {}
        THEN 1000 - ((CHOOSE k \in at : \A j \in at : j <= k) - 1)
        ELSE getPriority(item.type, item.level)

\* the sort callback: a before b
SortsBefore(content, opts, a, b) ==
    LET pa == ItemPriority(content, opts, a)
        pb == ItemPriority(content, opts, b)
    IN  IF pb # pa THEN pa > pb ELSE a < b

\* the items are taken in their original order
sortedItemsUnsorted(content, opts, S) ==
    [i \in 1..Cardinality(S) |->
        CHOOSE a \in S : Cardinality({b \in S : b < a}) = i - 1]

\* sortedItems: the original indices of S, by priority (descending) then by
\* original order
RECURSIVE sortedItems(_, _, _)
sortedItems(content, opts, S) ==
    IF S = {} THEN << >>
    ELSE LET first == CHOOSE a \in S :
                          \A b \in S \ {a} : SortsBefore(content, opts, a, b)
         IN  << first >> \o sortedItems(content, opts, S \ {first})

\* the loop accepts an item whenever it fits, without the reserve
FitsWithoutReserve(usedTokens, tokens, indicatorTokens, maxTokens) ==
    usedTokens + tokens <= maxTokens

\* if (usedTokens + item.tokens + indicatorTokens <= maxTokens)
Fits(usedTokens, tokens, indicatorTokens, maxTokens) ==
    usedTokens + tokens + indicatorTokens <= maxTokens

\* the greedy loop over sortedItems from position k on
RECURSIVE Greedy(_, _, _, _, _, _)
Greedy(sorted, tokens, indicatorTokens, maxTokens, k, acc) ==
    IF k > Len(sorted) THEN acc
    ELSE LET i == sorted[k] IN
         Greedy(sorted, tokens, indicatorTokens, maxTokens, k + 1,
                IF Fits(acc.usedTokens, tokens[i], indicatorTokens, maxTokens)
                THEN [selectedIndices |-> acc.selectedIndices \cup {i},
                      usedTokens |-> acc.usedTokens + tokens[i]]
                ELSE acc)

\* the selected items are pushed in the order the loop took them
truncatedIndicesAsSelected(selectedIndices, sorted) ==
    SelectSeq(sorted, LAMBDA i : i \in selectedIndices)

\* "Build result in original order": for (i = 0; i < content.length; i++)
\* if (selectedIndices.has(i)) push
truncatedIndices(selectedIndices, sorted) ==
    SelectSeq([i \in 1..Len(sorted) |-> i], LAMBDA i : i \in selectedIndices)

RECURSIVE Sum(_, _)
Sum(f, k) == IF k = 0 THEN 0 ELSE f[k] + Sum(f, k - 1)

\* the test `originalTokens < maxTokens` in place of `<=`
WithinBudgetStrict(originalTokens, maxTokens) == originalTokens < maxTokens

\* if (originalTokens <= maxTokens)
WithinBudget(originalTokens, maxTokens) == originalTokens <= maxTokens

TruncationResult(content, originalTokens, returnedTokens, truncated, itemsOmitted) ==
    [content |-> content, originalTokens |-> originalTokens,
     returnedTokens |-> returnedTokens, truncated |-> truncated,
     itemsOmitted |-> itemsOmitted]

truncateContent(content, maxTokens, opts) ==
    LET addIndicator == Option(opts, "addIndicator", TRUE)
        tokens == [i \in 1..Len(content) |-> estimateTokens(getContentText(content[i]))]
        originalTokens == Sum(tokens, Len(content))
        sorted == sortedItems(content, opts, 1..Len(content))
        indicatorTokens == IF addIndicator THEN 20 ELSE 0
        loop == Greedy(sorted, tokens, indicatorTokens, maxTokens, 1,
                       [selectedIndices |-> {}, usedTokens |-> 0])
        kept == truncatedIndices(loop.selectedIndices, sorted)
        truncatedContent == [k \in 1..Len(kept) |-> content[kept[k]]]
        itemsOmitted == Len(content) - Len(truncatedContent)
    IN  IF WithinBudget(originalTokens, maxTokens)
        THEN TruncationResult(content, originalTokens, originalTokens, FALSE, 0)
        ELSE IF addIndicator /\ itemsOmitted > 0
        THEN TruncationResult(
                 Append(truncatedContent,
                        Node("paragraph", 0, IndicatorText(itemsOmitted), << >>)),
                 originalTokens, loop.usedTokens + indicatorTokens, TRUE,
                 itemsOmitted)
        ELSE TruncationResult(truncatedContent, originalTokens, loop.usedTokens,
                              TRUE, itemsOmitted)

\* String.prototype.slice(start, end) on a string of n characters: the
\* index an argument stands for
SliceIndex(n, at) == IF at < 0 THEN (IF n + at < 0 THEN 0 ELSE n + at)
                     ELSE IF at > n THEN n ELSE at

\* text.slice(start, end)
slice(text, start, end) ==
    LET from == SliceIndex(Len(text), start)
        to == SliceIndex(Len(text), end)
    IN  IF from < to THEN SubSeq(text, from + 1, to) ELSE << >>

\* the default indicator of truncateText: '\n\n... [truncated]'
DefaultIndicator ==
    << "\n", "\n", ".", ".", ".", " ", "[", "t", "r", "u", "n", "c", "a", "t",
       "e", "d", "]" >>

\* '\n\n... [content truncated] ...\n\n'
MiddleMarker ==
    << "\n", "\n", ".", ".", ".", " ", "[", "c", "o", "n", "t", "e", "n", "t",
       " ", "t", "r", "u", "n", "c", "a", "t", "e", "d", "]", " ", ".", ".",
       ".", "\n", "\n" >>

\* text.split(/\n\n+/): the pieces between the runs of two or more newlines
RECURSIVE split(_)
split(text) ==
    LET starts == {k \in 1..Len(text) - 1 : text[k] = "\n" /\ text[k + 1] = "\n"}
    IN  IF starts = {} THEN << text >>
        ELSE LET k == CHOOSE s \in starts : \A t \in starts : s <= t
                 run == CHOOSE j \in k + 1..Len(text) :
                            /\ \A i \in k..j : text[i] = "\n"
                            /\ (j = Len(text) \/ text[j + 1] # "\n")
             IN  << SubSeq(text, 1, k - 1) >> \o
                 split(SubSeq(text, run + 1, Len(text)))

\* smart mode: whole paragraphs while they fit, stopping at the first that
\* does not
RECURSIVE SmartLoop(_, _, _, _, _, _)
SmartLoop(paragraphs, k, acc, tokens, indicatorTokens, maxTokens) ==
    IF k > Len(paragraphs) THEN acc
    ELSE LET para == paragraphs[k] \o << "\n", "\n" >>
             paraTokens == estimateTokens(para)
         IN  IF tokens + paraTokens + indicatorTokens <= maxTokens
             THEN SmartLoop(paragraphs, k + 1, acc \o para,
                            tokens + paraTokens, indicatorTokens, maxTokens)
             ELSE acc

truncateText(text, maxTokens, opts) ==
    LET mode == Option(opts, "mode", "end")
        indicator == Option(opts, "indicator", DefaultIndicator)
        originalTokens == estimateTokens(text)
        indicatorTokens == estimateTokens(indicator)
        availableTokens == maxTokens - indicatorTokens
        maxChars == availableTokens * 4
        halfChars == maxChars \div 2
        truncatedText ==
            CASE mode = "middle" ->
                     slice(text, 0, halfChars) \o MiddleMarker \o
                     slice(text, -halfChars, Len(text))
              [] mode = "smart" ->
                     trim(SmartLoop(split(text), 1, << >>, 0,
                                    indicatorTokens, maxTokens)) \o indicator
              [] OTHER -> slice(text, 0, maxChars) \o indicator
    IN  IF WithinBudget(originalTokens, maxTokens)
        THEN TruncationResult(text, originalTokens, originalTokens, FALSE, 0)
        ELSE TruncationResult(truncatedText, originalTokens,
                              estimateTokens(truncatedText), TRUE, 0)

\* a value of type StructuredContent[] | string, with what typeof gives
Value(typeof, value) == [typeof |-> typeof, value |-> value]

truncate(content, maxTokens, opts) ==
    IF content.typeof = "string"
    THEN truncateText(content.value, maxTokens,
                      IF "textMode" \in DOMAIN opts
                      THEN "mode" :> opts["textMode"] ELSE << >>)
    ELSE truncateContent(content.value, maxTokens, opts)

(***************************************************************************)
(* Calls of the token utilities: the arguments a call is made with.        *)
(***************************************************************************)
\* sample nodes: of 3, 4, 20, 2, 7 and 0 tokens
MainTitle == Node("heading", 1, Repeat("T", 10), << >>)
SectionHeader == Node("heading", 2, Repeat("S", 14), << >>)
LongParagraph == Node("paragraph", 0, Repeat("p", 80), << >>)
ShortParagraph == Node("paragraph", 0, Repeat("q", 8), << >>)
ListOfTwo ==
    Node("list", 0, undefined,
         << Node("paragraph", 0, Repeat("i", 13), << >>),
            Node("paragraph", 0, Repeat("j", 13), << >>) >>)
EmptyCode == Node("code", 0, undefined, << >>)

NodePool == {MainTitle, LongParagraph, ShortParagraph, ListOfTwo}

\* five paragraphs of 20 tokens each
FiveParagraphs == [i \in 1..5 |-> LongParagraph]

\* arrays with headings of two levels and with a node without text
SampleContents ==
    {<< SectionHeader, ShortParagraph, MainTitle >>,
     << MainTitle, EmptyCode, LongParagraph >>,
     << EmptyCode, SectionHeader, ListOfTwo, MainTitle >>}

Contents ==
    UNION {[1..n -> NodePool] : n \in 0..MaxNodes}
        \cup {FiveParagraphs} \cup SampleContents

\* a text of three paragraphs with blank lines between them
ThreeParagraphs ==
    Repeat("a", 25) \o << "\n", "\n" >> \o Repeat("b", 26) \o
    << "\n", "\n", "\n" >> \o Repeat("c", 21)

Texts == {Repeat("a", n) : n \in 0..MaxChars} \cup {ThreeParagraphs}

Budgets == 0..MaxTokens

PriorityOrders == {<< "paragraph", "heading", "list" >>, << "code", "list" >>}

\* the options objects: each property present or not
ContentOptions ==
    {a @@ p : a \in {<< >>} \cup {"addIndicator" :> b : b \in BOOLEAN},
              p \in {<< >>} \cup {"priorityOrder" :> o : o \in PriorityOrders}}

TextOptions == {<< >>} \cup {"mode" :> mode : mode \in {"end", "middle", "smart"}}

\* the options truncate is called with on a string and on an array
TruncateOptions(typeof) ==
    IF typeof = "string"
    THEN {<< >>} \cup {"textMode" :> mode : mode \in {"end", "middle", "smart"}}
    ELSE {<< >>, "addIndicator" :> FALSE,
          "priorityOrder" :> << "paragraph", "heading", "list" >>}

\* the call fn(content, maxTokens, options) is made and returns value
Called(fn, content, maxTokens, opts, value) ==
    /\ call' = [fn |-> fn, content |-> content, maxTokens |-> maxTokens,
                options |-> opts]
    /\ result' = value
    /\ UNCHANGED << engineVars, browserVars, frame, log, inflight, outs, ret,
                    pinned, everTier3, closeBrowserCalls, obtained, pipelineVars,
                    callerVars >>

EstimateTokens(text) ==
    Called("estimateTokens", text, 0, << >>, estimateTokens(text))

TruncateContent(content, maxTokens, opts) ==
    Called("truncateContent", content, maxTokens, opts,
           truncateContent(content, maxTokens, opts))

TruncateText(text, maxTokens, opts) ==
    Called("truncateText", text, maxTokens, opts,
           truncateText(text, maxTokens, opts))

Truncate(content, maxTokens, opts) ==
    Called("truncate", content, maxTokens, opts,
           truncate(content, maxTokens, opts))

\* the caller has the value: the next call can be made
Returned ==
    /\ call # NoCall
    /\ "pc" \in DOMAIN call => call.pc = "done"
    /\ call' = NoCall
    /\ result' = NoCall
    /\ UNCHANGED << engineVars, browserVars, frame, log, inflight, outs, ret,
                    pinned, everTier3, closeBrowserCalls, obtained, pipelineVars,
                    callerVars >>

InitTokens == InitRace /\ browserInstance = 0

\* a call is made when the one before has returned
NextTokens ==
    \/ /\ call = NoCall
       /\ \E text \in Texts \cup {undefined} : EstimateTokens(text)
    \/ /\ call = NoCall
       /\ \E content \in Contents, maxTokens \in Budgets, opts \in ContentOptions :
              TruncateContent(content, maxTokens, opts)
    \/ /\ call = NoCall
       /\ \E text \in Texts, maxTokens \in Budgets, opts \in TextOptions :
              TruncateText(text, maxTokens, opts)
    \/ /\ call = NoCall
       /\ \E content \in Contents, maxTokens \in Budgets,
             opts \in TruncateOptions("object") :
              Truncate(Value("object", content), maxTokens, opts)
    \/ /\ call = NoCall
       /\ \E text \in Texts, maxTokens \in Budgets,
             opts \in TruncateOptions("string") :
              Truncate(Value("string", text), maxTokens, opts)
    \/ Returned

SpecTokens == InitTokens /\ [][NextTokens]_vars

(***************************************************************************)
(* Properties of the token utilities.                                      *)
(***************************************************************************)
\* the call made last is fn on a node array
OnContent(fn) ==
    \/ call.fn = fn /\ fn = "truncateContent"
    \/ call.fn = fn /\ fn = "truncate" /\ call.content.typeof = "object"

\* the call made last is fn on a string
OnText(fn) ==
    \/ call.fn = fn /\ fn = "truncateText"
    \/ call.fn = fn /\ fn = "truncate" /\ call.content.typeof = "string"

\* the array or string the call was made with
Input == IF call.fn = "truncate" THEN call.content.value ELSE call.content

\* the token estimate of each node of the input, and of all of them
NodeTokens == [i \in 1..Len(Input) |-> estimateTokens(getContentText(Input[i]))]
InputTokens == Sum(NodeTokens, Len(Input))

\* the indicator is enabled in the call made last
IndicatorEnabled == Option(call.options, "addIndicator", TRUE)

\* node is an omission indicator paragraph
IsIndicator(node) ==
    /\ node.type = "paragraph"
    /\ node.text # undefined
    /\ \E n \in 0..Len(Input) : node.text = IndicatorText(n)

\* the nodes returned, leaving aside the indicator paragraph
ReturnedNodes ==
    LET out == result.content
    IN  IF Len(out) > 0 /\ IsIndicator(out[Len(out)])
        THEN SubSeq(out, 1, Len(out) - 1) ELSE out

\* sub occurs in text
Contains(text, sub) ==
    \E k \in 0..Len(text) - Len(sub) : SubSeq(text, k + 1, k + Len(sub)) = sub

\* C12: for every content array and every budget B >= 0, indicator enabled
\* or not, truncateContent returns returnedTokens <= B (the kept nodes plus
\* the 20-token allowance when the indicator is appended).
C12_ReturnedWithinBudget ==
    (OnContent("truncateContent") \/ OnContent("truncate")) =>
        result.returnedTokens <= call.maxTokens

\* the scenario: five paragraphs of 20 tokens, budget 20, addIndicator = true
Scenario13 ==
    /\ call.fn = "truncateContent"
    /\ call.content = FiveParagraphs
    /\ call.maxTokens = 20
    /\ "addIndicator" \in DOMAIN call.options /\ call.options["addIndicator"]

\* C13 as stated: in the scenario the result holds at least one original
\* node plus exactly one synthetic paragraph whose text contains the omitted
\* count, and itemsOmitted >= 1.
C13_ScenarioKeepsANode ==
    Scenario13 =>
        LET out == result.content
            synthetic == {k \in 1..Len(out) : out[k] # LongParagraph}
        IN  /\ \E k \in 1..Len(out) : out[k] = LongParagraph
            /\ Cardinality(synthetic) = 1
            /\ \A k \in synthetic :
                   /\ out[k].type = "paragraph"
                   /\ Contains(out[k].text, Decimal(result.itemsOmitted))
            /\ result.itemsOmitted >= 1

\* C13 (amended): in the scenario no original node is returned: the result
\* is exactly one synthetic paragraph whose text contains the omitted count
\* 5, with itemsOmitted = 5, returnedTokens = 20 and truncated = true.
C13_ScenarioIndicatorOnly ==
    Scenario13 =>
        /\ Len(result.content) = 1
        /\ result.content[1].type = "paragraph"
        /\ result.content[1] # LongParagraph
        /\ Contains(result.content[1].text, Decimal(5))
        /\ result.itemsOmitted = 5
        /\ result.returnedTokens = 20
        /\ result.truncated
        /\ result.originalTokens = 100

C13_Witness ==
    /\ Scenario13
    /\ InputTokens = 100 /\ \A i \in 1..5 : NodeTokens[i] = 20
    /\ result.truncated

\* one heading and several paragraphs, default options, over budget
Scenario14 ==
    /\ call.fn = "truncateContent"
    /\ call.options = << >>
    /\ Cardinality({i \in 1..Len(Input) : Input[i].type = "heading"}) = 1
    /\ Cardinality({i \in 1..Len(Input) : Input[i].type = "paragraph"}) >= 2
    /\ \A i \in 1..Len(Input) : Input[i].type \in {"heading", "paragraph"}
    /\ InputTokens > call.maxTokens

\* the position of the heading of the input
TheHeading == CHOOSE i \in 1..Len(Input) : Input[i].type = "heading"

\* C14 as stated: with default options, one heading and several paragraphs
\* over budget, a heading whose own estimate is <= B is among the nodes
\* returned.
C14_HeadingKept ==
    (Scenario14 /\ NodeTokens[TheHeading] <= call.maxTokens) =>
        \E k \in 1..Len(ReturnedNodes) : ReturnedNodes[k] = Input[TheHeading]

\* C14 (amended): with default options, one heading and several paragraphs
\* over budget, a heading whose own estimate plus the 20-token indicator
\* reserve is <= B is among the nodes returned.
C14_HeadingKeptWithReserve ==
    (Scenario14 /\ NodeTokens[TheHeading] + 20 <= call.maxTokens) =>
        \E k \in 1..Len(ReturnedNodes) : ReturnedNodes[k] = Input[TheHeading]

\* the heading comes after a paragraph that would fit in its place, and is
\* returned while a paragraph is omitted
C14_Witness ==
    /\ Scenario14 /\ NodeTokens[TheHeading] + 20 <= call.maxTokens
    /\ TheHeading > 1
    /\ NodeTokens[1] + 20 <= call.maxTokens
    /\ NodeTokens[1] + NodeTokens[TheHeading] + 20 > call.maxTokens
    /\ result.truncated /\ result.itemsOmitted >= 1
    /\ ReturnedNodes = << Input[TheHeading] >>

\* C15: the nodes truncateContent returns, leaving aside the indicator, are
\* a subsequence of the input (input nodes, none twice, in their original
\* order), and itemsOmitted is the number of input nodes not returned.
C15_ReturnedIsSubsequence ==
    (OnContent("truncateContent") \/ OnContent("truncate")) =>
        /\ \E S \in SUBSET (1..Len(Input)) :
               LET idx == SelectSeq([i \in 1..Len(Input) |-> i], LAMBDA i : i \in S)
               IN  ReturnedNodes = [k \in 1..Len(idx) |-> Input[idx[k]]]
        /\ result.itemsOmitted = Len(Input) - Len(ReturnedNodes)

\* a paragraph and the heading after it are returned in that order, though
\* the heading was selected first, and a node is omitted
C15_Witness ==
    /\ OnContent("truncateContent")
    /\ result.truncated /\ result.itemsOmitted = 1
    /\ Len(Input) = 3
    /\ ReturnedNodes = << ShortParagraph, MainTitle >>
    /\ sortedItems(Input, call.options, 1..3)[1] = 2

\* C16: a content (node array or string) whose token estimate is <= B is
\* returned unchanged by truncate, truncateContent and truncateText, with
\* truncated = false, itemsOmitted = 0 and returnedTokens = originalTokens.
C16_IdentityWithinBudget ==
    /\ (\/ OnContent("truncateContent") \/ OnContent("truncate")) =>
           (InputTokens <= call.maxTokens =>
                result = TruncationResult(Input, InputTokens, InputTokens, FALSE, 0))
    /\ (\/ OnText("truncateText") \/ OnText("truncate")) =>
           (MathCeil(Len(Input), 4) <= call.maxTokens =>
                result = TruncationResult(Input, MathCeil(Len(Input), 4),
                                          MathCeil(Len(Input), 4), FALSE, 0))

\* an array of several nodes whose estimate is exactly the budget
C16_Witness ==
    /\ OnContent("truncate")
    /\ Len(Input) >= 2 /\ InputTokens = call.maxTokens /\ InputTokens > 0
    /\ result.content = Input /\ ~result.truncated

\* where the type of node i stands in the custom order (0: not listed)
Listed(i) ==
    LET order == call.options["priorityOrder"]
        at == {k \in 1..Len(order) : order[k] = Input[i].type}
    IN  IF at = {} THEN 0 ELSE CHOOSE k \in at : \A j \in at : k <= j

\* the place of node i in the sequence of indices order
Place(order, i) == CHOOSE k \in 1..Len(order) : order[k] = i

\* C17: with a custom priorityOrder (each type listed once) truncateContent
\* considers every node of a listed type before every node of an unlisted
\* type, a type listed earlier before a type listed later (headings whatever
\* their level), and unlisted types in their default relative order; the
\* node considered first is returned if it fits the budget with the reserve.
C17_CustomOrderFollowed ==
    (/\ OnContent("truncateContent") \/ OnContent("truncate")
     /\ "priorityOrder" \in DOMAIN call.options) =>
        LET all == 1..Len(Input)
            custom == sortedItems(Input, call.options, all)
            default == sortedItems(Input, << >>, all)
            reserve == IF IndicatorEnabled THEN 20 ELSE 0
        IN  /\ \A i, j \in all :
                /\ (Listed(i) > 0 /\ Listed(j) = 0) =>
                       Place(custom, i) < Place(custom, j)
                /\ (Listed(i) > 0 /\ Listed(j) > Listed(i)) =>
                       Place(custom, i) < Place(custom, j)
                /\ (Listed(i) = 0 /\ Listed(j) = 0) =>
                       (Place(custom, i) < Place(custom, j)
                            <=> Place(default, i) < Place(default, j))
            /\ (/\ result.truncated
                /\ NodeTokens[custom[1]] + reserve <= call.maxTokens) =>
                   \E k \in 1..Len(ReturnedNodes) :
                       ReturnedNodes[k] = Input[custom[1]]

\* paragraphs are listed before headings: the paragraph after the heading is
\* returned and the heading, which no longer fits, is omitted
C17_Witness ==
    /\ OnContent("truncateContent")
    /\ "priorityOrder" \in DOMAIN call.options
    /\ call.options["priorityOrder"] = << "paragraph", "heading", "list" >>
    /\ Len(Input) = 3
    /\ Input[1] = MainTitle /\ Input[2] = EmptyCode /\ Input[3] = LongParagraph
    /\ result.truncated
    /\ ReturnedNodes = << EmptyCode, LongParagraph >>

\* the call truncates a string in the default end mode
EndMode ==
    \/ OnText("truncateText") /\ Option(call.options, "mode", "end") = "end"
    \/ OnText("truncate") /\ Option(call.options, "textMode", "end") = "end"

\* C18: for a string whose estimate exceeds B, truncate/truncateText in end
\* mode report truncated = true, originalTokens = ceil(length/4) and
\* returnedTokens <= B, for every B >= 0.
C18_TextWithinBudget ==
    (EndMode /\ MathCeil(Len(Input), 4) > call.maxTokens) =>
        /\ result.truncated
        /\ result.originalTokens = MathCeil(Len(Input), 4)
        /\ result.returnedTokens <= call.maxTokens

\* C19: estimateTokens(text) is the least integer k with 4k >= the number of
\* characters of text, and 0 for an empty or absent text; it is a function
\* of the text alone.
C19_EstimateIsCeil ==
    call.fn = "estimateTokens" =>
        LET n == IF call.content = undefined THEN 0 ELSE Len(call.content)
        IN  /\ 4 * result >= n
            /\ 4 * (result - 1) < n
            /\ result >= 0
            /\ (n = 11 => result = 3) /\ (n = 100 => result = 25)

\* 9 characters give 3 tokens
C19_Witness ==
    /\ call.fn = "estimateTokens"
    /\ call.content # undefined /\ Len(call.content) = 9
    /\ result = 3

(***************************************************************************)
(* Semantic search: cosineSimilarity and semanticSearch.  A number is kept *)
(* exactly, as num / sqrt(sq) with sq > 0; an embedding is a vector of     *)
(* integers.                                                               *)
(***************************************************************************)
Number(num, sq) == [num |-> num, sq |-> sq]

\* x >= y
GreaterOrEqual(x, y) ==
    IF x.num >= 0 /\ y.num <= 0 THEN TRUE
    ELSE IF x.num < 0 /\ y.num >= 0 THEN FALSE
    ELSE IF x.num >= 0 THEN x.num * x.num * y.sq >= y.num * y.num * x.sq
    ELSE x.num * x.num * y.sq <= y.num * y.num * x.sq

\* SIMILARITY_THRESHOLD = 0.3
SIMILARITY_THRESHOLD == Number(3, 100)

\* what the embedding model gives for each sample text
Embedding ==
    [price |-> << 1, 0 >>, cost |-> << 2, 0 >>, shipping |-> << 1, 1 >>,
     delivery |-> << 1, 1 >>, specs |-> << 1, 3 >>, returns |-> << 1, 4 >>,
     contact |-> << 0, 1 >>, blank |-> << 0, 0 >>, refund |-> << -1, 0 >>]

RECURSIVE Dot(_, _, _)
Dot(a, b, k) == IF k = 0 THEN 0 ELSE a[k] * b[k] + Dot(a, b, k - 1)

\* cosineSimilarity without its length check: the loop runs over a, and
\* `b[i] ?? 0` reads a missing component of b as 0
cosineSimilarityPadded(a, b) ==
    LET bb == [k \in 1..Len(a) |-> IF k <= Len(b) THEN b[k] ELSE 0]
        dotProduct == Dot(a, bb, Len(a))
        normA == Dot(a, a, Len(a))
        normB == Dot(bb, bb, Len(a))
    IN  IF normA * normB = 0 THEN [ok |-> TRUE, value |-> Number(0, 1)]
        ELSE [ok |-> TRUE, value |-> Number(dotProduct, normA * normB)]

\* cosineSimilarity: throws on vectors of different lengths, 0 when a
\* magnitude is 0, else dotProduct / (sqrt(normA) * sqrt(normB))
cosineSimilarity(a, b) ==
    IF Len(a) # Len(b) THEN [ok |-> FALSE, value |-> Number(0, 1)]
    ELSE LET dotProduct == Dot(a, b, Len(a))
             normA == Dot(a, a, Len(a))
             normB == Dot(b, b, Len(b))
         IN  IF normA * normB = 0 THEN [ok |-> TRUE, value |-> Number(0, 1)]
             ELSE [ok |-> TRUE, value |-> Number(dotProduct, normA * normB)]

\* a ContentChunk
ContentChunk(text, index) == [text |-> text, index |-> index]

\* the filter keeps only scores above the threshold
PassesThresholdStrictly(score, threshold) == ~GreaterOrEqual(threshold, score)

\* if (score >= threshold)
PassesThreshold(score, threshold) == GreaterOrEqual(score, threshold)

\* results.sort((a, b) => b.score - a.score), a stable sort: entry i of
\* results comes before entry j
RanksBefore(results, i, j) ==
    IF GreaterOrEqual(results[i].score, results[j].score)
       /\ GreaterOrEqual(results[j].score, results[i].score)
    THEN i < j
    ELSE GreaterOrEqual(results[i].score, results[j].score)

RECURSIVE sort(_, _)
sort(results, S) ==
    IF S = {} THEN << >>
    ELSE LET first == CHOOSE i \in S : \A j \in S \ {i} : RanksBefore(results, i, j)
         IN  << results[first] >> \o sort(results, S \ {first})

\* the part of semanticSearch after the embeddings are there
Rank(chunks, queryEmbedding, chunkEmbeddings, topK, threshold) ==
    LET scores == [i \in 1..Len(chunks) |->
                       cosineSimilarity(queryEmbedding, chunkEmbeddings[i])]
        kept == SelectSeq([i \in 1..Len(chunks) |-> i],
                          LAMBDA i : PassesThreshold(scores[i].value, threshold))
        results == [k \in 1..Len(kept) |->
                        [chunk |-> chunks[kept[k]], score |-> scores[kept[k]].value]]
    IN  IF \E i \in 1..Len(chunks) : ~scores[i].ok
        THEN [kind |-> "throw", value |-> << >>]
        ELSE [kind |-> "return",
              value |-> slice(sort(results, 1..Len(results)), 0, topK)]

\* options.precomputedEmbeddings is there and has one entry per chunk
UsesPrecomputed(chunks, opts) ==
    /\ "precomputedEmbeddings" \in DOMAIN opts
    /\ Len(opts["precomputedEmbeddings"]) = Len(chunks)

\* what the search in progress returns once its embeddings are there
Ranked(chunkEmbeddings) ==
    Rank(call.chunks, Embedding[call.query], chunkEmbeddings,
         Option(call.options, "topK", 10),
         Option(call.options, "threshold", SIMILARITY_THRESHOLD))

\* semanticSearch without `if (chunks.length === 0) return []`
SemanticSearchNoEarlyReturn(query, chunks, opts) ==
    /\ call' = [fn |-> "semanticSearch", query |-> query, chunks |-> chunks,
                options |-> opts, pc |-> "embedQuery",
                embedCalls |-> 0, embedBatchCalls |-> 0]
    /\ result' = NoCall
    /\ UNCHANGED << engineVars, browserVars, frame, log, inflight, outs, ret,
                    pinned, everTier3, closeBrowserCalls, obtained, pipelineVars,
                    callerVars >>

\* semanticSearch is called: an empty chunk list returns at once, else the
\* call awaits embed(query)
SemanticSearch(query, chunks, opts) ==
    /\ call' = [fn |-> "semanticSearch", query |-> query, chunks |-> chunks,
                options |-> opts,
                pc |-> IF Len(chunks) = 0 THEN "done" ELSE "embedQuery",
                embedCalls |-> 0, embedBatchCalls |-> 0]
    /\ result' = IF Len(chunks) = 0 THEN [kind |-> "return", value |-> << >>]
                 ELSE NoCall
    /\ UNCHANGED << engineVars, browserVars, frame, log, inflight, outs, ret,
                    pinned, everTier3, closeBrowserCalls, obtained, pipelineVars,
                    callerVars >>

\* embed(query) resolves, the model being loaded by the first embed; with
\* usable precomputed embeddings the search ranks and returns, else it
\* awaits embedBatch
QueryEmbedded ==
    /\ call # NoCall /\ "pc" \in DOMAIN call /\ call.pc = "embedQuery"
    /\ IF embeddingPipeline = 0
       THEN /\ embeddingPipeline' = loads + 1
            /\ loads' = loads + 1
            /\ loadState' = Append(loadState, "resolved")
       ELSE UNCHANGED << embeddingPipeline, loads, loadState >>
    /\ IF UsesPrecomputed(call.chunks, call.options)
       THEN /\ call' = [call EXCEPT !.pc = "done", !.embedCalls = @ + 1]
            /\ result' = Ranked(call.options["precomputedEmbeddings"])
       ELSE /\ call' = [call EXCEPT !.pc = "embedBatch", !.embedCalls = @ + 1]
            /\ result' = result
    /\ UNCHANGED << engineVars, browserVars, frame, log, inflight, outs, ret,
                    pinned, everTier3, closeBrowserCalls, obtained, pipelineLoading,
                    callerVars >>

\* embedBatch(chunks.map(c => c.text)) resolves: the search ranks and returns
BatchEmbedded ==
    /\ call # NoCall /\ "pc" \in DOMAIN call /\ call.pc = "embedBatch"
    /\ call' = [call EXCEPT !.pc = "done", !.embedBatchCalls = @ + 1]
    /\ result' = Ranked([i \in 1..Len(call.chunks) |-> Embedding[call.chunks[i].text]])
    /\ UNCHANGED << engineVars, browserVars, frame, log, inflight, outs, ret,
                    pinned, everTier3, closeBrowserCalls, obtained, pipelineVars,
                    callerVars >>

Queries == {"price"}
ChunkTexts == {"cost", "shipping", "delivery", "specs", "returns", "refund"}

\* chunk lists: chunk i of a list has index i - 1
ChunkLists ==
    UNION {{[i \in 1..n |-> ContentChunk(texts[i], i - 1)] : texts \in [1..n -> ChunkTexts]}
               : n \in 0..MaxChunks}

Thresholds == {SIMILARITY_THRESHOLD, Number(0, 1), Number(1, 2), Number(1, 1)}

\* precomputed embeddings for a chunk list: one per chunk (those of the
\* chunks read backwards), or one too many, or one per chunk with the last
\* of another dimension than the model's
Precomputed(chunks) ==
    {[i \in 1..Len(chunks) |-> Embedding[chunks[Len(chunks) + 1 - i].text]],
     [i \in 1..Len(chunks) + 1 |-> Embedding["contact"]],
     [i \in 1..Len(chunks) |->
         IF i = Len(chunks) THEN << 1, 0, 0 >> ELSE Embedding[chunks[i].text]]}

\* the vectors cosineSimilarity is called with
Vectors == UNION {[1..n -> -1..2] : n \in 0..MaxDim}

\* cosineSimilarity(a, b) is called and returns or throws
CosineSimilarity(a, b) ==
    /\ call' = [fn |-> "cosineSimilarity", a |-> a, b |-> b]
    /\ result' = LET score == cosineSimilarity(a, b)
                 IN  [kind |-> IF score.ok THEN "return" ELSE "throw",
                      value |-> score.value]
    /\ UNCHANGED << engineVars, browserVars, frame, log, inflight, outs, ret,
                    pinned, everTier3, closeBrowserCalls, obtained, pipelineVars,
                    callerVars >>

SearchOptions(chunks) ==
    {k @@ t @@ e :
        k \in {<< >>} \cup {"topK" :> n : n \in 0..MaxTopK},
        t \in {<< >>} \cup {"threshold" :> x : x \in Thresholds},
        e \in {<< >>} \cup {"precomputedEmbeddings" :> v : v \in Precomputed(chunks)}}

InitSearch == InitTokens

NextSearch ==
    \/ /\ call = NoCall
       /\ \E query \in Queries, chunks \in ChunkLists :
              \E opts \in SearchOptions(chunks) : SemanticSearch(query, chunks, opts)
    \/ QueryEmbedded
    \/ BatchEmbedded
    \/ /\ call = NoCall
       /\ \E a, b \in Vectors : CosineSimilarity(a, b)
    \/ Returned

SpecSearch == InitSearch /\ [][NextSearch]_vars

(***************************************************************************)
(* Properties of semanticSearch.                                           *)
(***************************************************************************)
\* a search has returned a list for a non-empty chunk list
SearchReturned ==
    /\ call.fn = "semanticSearch" /\ call.pc = "done"
    /\ Len(call.chunks) > 0
    /\ result.kind = "return"

\* the embedding the search scored chunk i with, and the score
ChunkEmbedding(i) ==
    IF UsesPrecomputed(call.chunks, call.options)
    THEN call.options["precomputedEmbeddings"][i]
    ELSE Embedding[call.chunks[i].text]

ChunkScore(i) == cosineSimilarity(Embedding[call.query], ChunkEmbedding(i)).value

\* chunk i ranks strictly ahead of chunk j: a higher score, or the same
\* score and an earlier place in the chunk list
Ahead(i, j) ==
    IF GreaterOrEqual(ChunkScore(j), ChunkScore(i))
    THEN GreaterOrEqual(ChunkScore(i), ChunkScore(j)) /\ i < j
    ELSE TRUE

\* C20: for any query, chunk list, topK (a count, >= 0) and threshold,
\* semanticSearch returns exactly the first topK entries of the chunks whose
\* score is >= threshold, sorted by descending score with ties in original
\* chunk order: every returned score is >= threshold, the length is <= topK,
\* the scores do not increase, and no omitted qualifying chunk ranks ahead
\* of a returned one.
C20_TopKAboveThreshold ==
    SearchReturned =>
        LET topK == Option(call.options, "topK", 10)
            threshold == Option(call.options, "threshold", SIMILARITY_THRESHOLD)
            qualifying == {i \in 1..Len(call.chunks) :
                               GreaterOrEqual(ChunkScore(i), threshold)}
            out == result.value
            at == [k \in 1..Len(out) |-> out[k].chunk.index + 1]
            returned == {at[k] : k \in 1..Len(out)}
        IN  /\ Len(out) = IF Cardinality(qualifying) < topK
                          THEN Cardinality(qualifying) ELSE topK
            /\ Len(out) <= topK
            /\ returned \subseteq qualifying
            /\ \A k \in 1..Len(out) :
                   /\ out[k].chunk = call.chunks[at[k]]
                   /\ out[k].score = ChunkScore(at[k])
                   /\ GreaterOrEqual(out[k].score, threshold)
            /\ \A k, l \in 1..Len(out) : k < l =>
                   /\ GreaterOrEqual(out[k].score, out[l].score)
                   /\ Ahead(at[k], at[l])
            /\ \A i \in qualifying \ returned : \A k \in 1..Len(out) : Ahead(at[k], i)

\* three chunks clear the threshold and topK is 2: the best comes first, and
\* of the two that tie the earlier is returned and the later omitted
C20_Witness ==
    /\ SearchReturned
    /\ call.options = ("topK" :> 2)
    /\ Len(call.chunks) = 3
    /\ call.chunks[1].text = "delivery" /\ call.chunks[2].text = "cost"
    /\ call.chunks[3].text = "shipping"
    /\ Len(result.value) = 2
    /\ result.value[1].chunk = call.chunks[2]
    /\ result.value[2].chunk = call.chunks[1]


\* C22: a semanticSearch that has returned for an empty chunk list returned
\* the empty list in the step that called it, having called neither embed
\* nor embedBatch and with the embedding model as it was (not loaded, no
\* load started); one that has returned for a non-empty list called embed
\* exactly once.
C22_EmptyListEmbedsNothing ==
    [][ (call'.fn = "semanticSearch" /\ call'.pc = "done" /\ call' # call) =>
            IF Len(call'.chunks) = 0
            THEN /\ call = NoCall
                 /\ result' = [kind |-> "return", value |-> << >>]
                 /\ call'.embedCalls = 0 /\ call'.embedBatchCalls = 0
                 /\ UNCHANGED pipelineVars
            ELSE call'.embedCalls = 1 ]_vars

\* the first search of the process was given no chunk: it has returned the
\* empty list and the model is still not loaded
C22_Witness ==
    /\ call.fn = "semanticSearch" /\ call.pc = "done"
    /\ Len(call.chunks) = 0
    /\ result = [kind |-> "return", value |-> << >>]
    /\ embeddingPipeline = 0 /\ loads = 0

\* every component of the vector v is 0
IsZero(v) == \A k \in 1..Len(v) : v[k] = 0

\* C23: cosineSimilarity throws whenever its two vectors differ in length
\* and returns exactly 0 whenever they have the same length and one of them
\* is all zeros; a semanticSearch that scored a chunk with an embedding of
\* another length than the query's has thrown.
C23_MismatchThrowsZeroNormIsZero ==
    /\ call.fn = "cosineSimilarity" =>
           /\ Len(call.a) # Len(call.b) => result.kind = "throw"
           /\ (Len(call.a) = Len(call.b) /\ (IsZero(call.a) \/ IsZero(call.b))) =>
                  result = [kind |-> "return", value |-> Number(0, 1)]
    /\ (/\ call.fn = "semanticSearch" /\ call.pc = "done"
        /\ \E i \in 1..Len(call.chunks) :
               Len(ChunkEmbedding(i)) # Len(Embedding[call.query])) =>
           result.kind = "throw"

\* a search over two chunks whose second precomputed embedding has three
\* components has thrown
C23_Witness ==
    /\ call.fn = "semanticSearch" /\ call.pc = "done"
    /\ Len(call.chunks) = 2
    /\ UsesPrecomputed(call.chunks, call.options)
    /\ Len(ChunkEmbedding(1)) = 2 /\ Len(ChunkEmbedding(2)) = 3
    /\ result.kind = "throw"

(***************************************************************************)
(* The chunker and filterByQuery (the semantic module).  The texts are     *)
(* sequences of characters, as in utils/tokens.ts.                         *)
(***************************************************************************)
\* text.trim().length >= 10
LongEnoughInclusive(text) ==
    text # undefined /\ Len(text) > 0 /\ Len(trim(text)) >= 10

\* item.text && item.text.trim().length > 10
LongEnough(text) ==
    text # undefined /\ Len(text) > 0 /\ Len(trim(text)) > 10

\* a ContentChunk with its type
TypedChunk(text, index, type) == [text |-> text, index |-> index, type |-> type]

\* chunks.push({text: text.trim(), index: index++, type}) if the text is
\* long enough; acc is the pair of chunks and index
Push(acc, text, type) ==
    IF LongEnough(text)
    THEN [chunks |-> Append(acc.chunks, TypedChunk(trim(text), acc.index, type)),
          index |-> acc.index + 1]
    ELSE acc

\* for (const child of item.children)
RECURSIVE ChildrenLoop(_, _, _)
ChildrenLoop(children, k, acc) ==
    IF k > Len(children) THEN acc
    ELSE ChildrenLoop(children, k + 1, Push(acc, children[k].text, "list-item"))

\* for (const item of content)
RECURSIVE ItemsLoop(_, _, _)
ItemsLoop(content, k, acc) ==
    IF k > Len(content) THEN acc
    ELSE ItemsLoop(content, k + 1,
                   ChildrenLoop(content[k].children, 1,
                                Push(acc, content[k].text, content[k].type)))

extractChunks(content) ==
    ItemsLoop(content, 1, [chunks |-> << >>, index |-> 0]).chunks

\* text.split(/\n\n+/).filter(...).map((p, index) => ...)
extractChunksFromText(text) ==
    LET paragraphs == SelectSeq(split(text), LongEnough)
    IN  [k \in 1..Len(paragraphs) |->
            TypedChunk(trim(paragraphs[k]), k - 1, "paragraph")]

\* Array.prototype.join
RECURSIVE join(_, _)
join(texts, separator) ==
    IF Len(texts) = 0 THEN << >>
    ELSE IF Len(texts) = 1 THEN texts[1]
    ELSE texts[1] \o separator \o join(Tail(texts), separator)

\* what the texts of the sample documents are about: a text of p's is about
\* the price, and so on
Topic == [p |-> "price", c |-> "contact", s |-> "shipping", r |-> "returns"]

\* what the embedding model gives for a text of a sample document
TextEmbedding(text) ==
    IF Len(text) > 0 /\ text[1] \in DOMAIN Topic
    THEN Embedding[Topic[text[1]]]
    ELSE Embedding["blank"]

\* filterByQuery falling back on the input when nothing matched
FilterResultOrOriginal(content, chunks, results) ==
    [filteredContent |->
         IF Len(results) = 0 /\ content.typeof = "string" THEN content.value
         ELSE join([k \in 1..Len(results) |-> results[k].chunk.text],
                   << "\n", "\n" >>),
     results |-> results,
     totalChunks |-> Len(chunks),
     matchedChunks |-> Len(results)]

\* what filterByQuery returns once semanticSearch gave results
FilterResult(content, chunks, results) ==
    [filteredContent |->
         join([k \in 1..Len(results) |-> results[k].chunk.text], << "\n", "\n" >>),
     results |-> results,
     totalChunks |-> Len(chunks),
     matchedChunks |-> Len(results)]

\* the chunks filterByQuery extracts from its content
FilterChunks(content) ==
    IF content.typeof = "string" THEN extractChunksFromText(content.value)
    ELSE extractChunks(content.value)

\* filterByQuery is called: without chunks it returns at once, the input
\* itself if that is a string; else it awaits semanticSearch
FilterByQuery(content, query, opts) ==
    LET chunks == FilterChunks(content) IN
    /\ call' = [fn |-> "filterByQuery", content |-> content, query |-> query,
                options |-> opts,
                pc |-> IF Len(chunks) = 0 THEN "done" ELSE "search"]
    /\ result' =
           IF Len(chunks) = 0
           THEN [filteredContent |->
                     IF content.typeof = "string" THEN content.value ELSE << >>,
                 results |-> << >>, totalChunks |-> 0, matchedChunks |-> 0]
           ELSE NoCall
    /\ UNCHANGED << engineVars, browserVars, frame, log, inflight, outs, ret,
                    pinned, everTier3, closeBrowserCalls, obtained, pipelineVars,
                    callerVars >>

\* semanticSearch(query, chunks, options) resolves, the model being loaded
\* by its first embed: filterByQuery joins the texts of the results
Searched ==
    /\ call # NoCall /\ call.fn = "filterByQuery" /\ call.pc = "search"
    /\ IF embeddingPipeline = 0
       THEN /\ embeddingPipeline' = loads + 1
            /\ loads' = loads + 1
            /\ loadState' = Append(loadState, "resolved")
       ELSE UNCHANGED << embeddingPipeline, loads, loadState >>
    /\ LET chunks == FilterChunks(call.content)
           found == Rank(chunks, Embedding[call.query],
                         [i \in 1..Len(chunks) |-> TextEmbedding(chunks[i].text)],
                         Option(call.options, "topK", 10),
                         Option(call.options, "threshold", SIMILARITY_THRESHOLD))
       IN  /\ call' = [call EXCEPT !.pc = "done"]
           /\ result' = FilterResult(call.content, chunks, found.value)
    /\ UNCHANGED << engineVars, browserVars, frame, log, inflight, outs, ret,
                    pinned, everTier3, closeBrowserCalls, obtained, pipelineLoading,
                    callerVars >>

\* extractChunks(content) is called and returns
ExtractChunks(content) ==
    /\ call' = [fn |-> "extractChunks", content |-> content]
    /\ result' = extractChunks(content)
    /\ UNCHANGED << engineVars, browserVars, frame, log, inflight, outs, ret,
                    pinned, everTier3, closeBrowserCalls, obtained, pipelineVars,
                    callerVars >>

\* extractChunksFromText(text) is called and returns
ExtractChunksFromText(text) ==
    /\ call' = [fn |-> "extractChunksFromText", content |-> text]
    /\ result' = extractChunksFromText(text)
    /\ UNCHANGED << engineVars, browserVars, frame, log, inflight, outs, ret,
                    pinned, everTier3, closeBrowserCalls, obtained, pipelineVars,
                    callerVars >>

\* sample nodes: texts of 10 and of 11 characters between spaces, a text of
\* 12, a list without text whose children have 14, 3 and 11 characters, a
\* text of spaces, a node without text
PriceTitle == Node("heading", 1, << " " >> \o Repeat("p", 10) \o << " " >>, << >>)
PriceLine == Node("paragraph", 0, << " " >> \o Repeat("p", 11) \o << " ", "\n" >>, << >>)
ContactLine == Node("paragraph", 0, Repeat("c", 12), << >>)
ShippingList ==
    Node("list", 0, undefined,
         << Node("list-item", 0, Repeat("s", 14), << >>),
            Node("list-item", 0, Repeat("s", 3), << >>),
            Node("list-item", 0, Repeat("r", 11), << >>) >>)
BlankLine == Node("paragraph", 0, Repeat(" ", 12), << >>)
Picture == Node("image", 0, undefined, << >>)

Documents ==
    UNION {[1..n -> {PriceTitle, PriceLine, ContactLine, ShippingList,
                     BlankLine, Picture}] : n \in 0..MaxItems}

\* sample paragraphs, one with a single newline inside, and the texts made
\* of them with two or three newlines between them
Paragraphs ==
    {PriceTitle.text, PriceLine.text, ContactLine.text, Repeat("s", 14),
     Repeat("c", 3) \o << "\n" >> \o Repeat("c", 9)}

PlainTexts ==
    {join(paragraphs, separator) :
        paragraphs \in UNION {[1..n -> Paragraphs] : n \in 0..MaxItems},
        separator \in {<< "\n", "\n" >>, << "\n", "\n", "\n" >>}}

FilterQueries == {"price", "refund"}

FilterOptions ==
    {k @@ t : k \in {<< >>} \cup {"topK" :> n : n \in 0..1},
              t \in {<< >>} \cup {"threshold" :> x : x \in {Number(19, 400), Number(1, 1)}}}

InitFilter == InitTokens

NextFilter ==
    \/ /\ call = NoCall
       /\ \E content \in Documents : ExtractChunks(content)
    \/ /\ call = NoCall
       /\ \E text \in PlainTexts : ExtractChunksFromText(text)
    \/ /\ call = NoCall
       /\ \E content \in Documents, query \in FilterQueries, opts \in FilterOptions :
              FilterByQuery(Value("object", content), query, opts)
    \/ /\ call = NoCall
       /\ \E text \in PlainTexts, query \in FilterQueries, opts \in FilterOptions :
              FilterByQuery(Value("string", text), query, opts)
    \/ Searched
    \/ Returned

SpecFilter == InitFilter /\ [][NextFilter]_vars

(***************************************************************************)
(* Properties of the chunker and of filterByQuery.                         *)
(***************************************************************************)
\* the texts of a tree in traversal order, each with the type its chunk
\* gets: a node, then its children
RECURSIVE Traversal(_)
Traversal(content) ==
    IF Len(content) = 0 THEN << >>
    ELSE LET item == Head(content)
         IN  << [text |-> item.text, type |-> item.type] >>
             \o [k \in 1..Len(item.children) |->
                    [text |-> item.children[k].text, type |-> "list-item"]]
             \o Traversal(Tail(content))

\* the paragraphs of a text, in order
ParagraphsOf(text) ==
    LET paragraphs == split(text)
    IN  [k \in 1..Len(paragraphs) |-> [text |-> paragraphs[k], type |-> "paragraph"]]

\* the trimmed text of the candidate has more than 10 characters
Over10(candidate) ==
    candidate.text # undefined /\ Len(trim(candidate.text)) > 10

Filtered == call.fn = "filterByQuery" /\ call.pc = "done"

\* the score of the chunk against the query of the call
FilterScore(chunk) ==
    cosineSimilarity(Embedding[call.query], TextEmbedding(chunk.text)).value

\* chunks were extracted and none scores >= the threshold of the call
NoChunkClears ==
    LET chunks == FilterChunks(call.content)
        threshold == Option(call.options, "threshold", SIMILARITY_THRESHOLD)
    IN  /\ Len(chunks) > 0
        /\ \A i \in 1..Len(chunks) : ~GreaterOrEqual(FilterScore(chunks[i]), threshold)

Settled(value) == [settles |-> TRUE, jobs |-> 0, value |-> value]
Pending(value) == [settles |-> FALSE, jobs |-> 0, value |-> value]

\* p.then(f): its reaction job is queued at once if p is settled, and
\* settles the derived promise when it runs
then(p, value) ==
    IF p.settles THEN [settles |-> TRUE, jobs |-> p.jobs + 1, value |-> value]
    ELSE Pending(value)

\* await Promise.race(promises): the promise whose reaction job runs first
\* decides, the earlier one in the array if two are queued together
race(promises) ==
    LET ready == {i \in 1..Len(promises) : promises[i].settles}
        first == CHOOSE i \in ready : \A j \in ready \ {i} :
                     \/ promises[i].jobs < promises[j].jobs
                     \/ promises[i].jobs = promises[j].jobs /\ i < j
    IN  IF ready = {} THEN Pending(FALSE) ELSE Settled(promises[first].value)

\* the promise of task i: processUrl(url).then(result => results.push(result))
TaskPromise(state) == IF state \in {"ok", "error"} THEN Settled(TRUE) ELSE Pending(TRUE)

\* await Promise.race([p.then(() => true), Promise.resolve(false)])
Completed(state) == race(<< then(TaskPromise(state), TRUE), Settled(FALSE) >>).value

\* a BatchResult
BatchResult(url, success) == [url |-> url, success |-> success]

\* for (let i = inFlight.length - 1; i >= 0; i--) if (completed) splice(i, 1)
Sweep(inFlight, task) ==
    SelectSeq(inFlight, LAMBDA i : ~Completed(task[i]))

\* while (queue.length > 0 && inFlight.length < concurrency): the tasks
\* started, given the first queued task and the room left
Started(queue, n, room) ==
    {i \in queue..n : i < queue + room}

\* One turn of the outer while loop from its test to its await: the
\* call returns, or starts tasks and awaits Promise.race(inFlight), which
\* resumes it at once if a promise in flight is settled.
Turn(c) ==
    LET n == Len(c.urls)
    IN  IF ~(c.queue <= n \/ Len(c.inFlight) > 0)
        THEN [c EXCEPT !.pc = "done"]
        ELSE LET room == IF c.concurrency > Len(c.inFlight)
                         THEN c.concurrency - Len(c.inFlight) ELSE 0
                 new == Started(c.queue, n, room)
                 task == [i \in 1..n |-> IF i \in new THEN "running" ELSE c.task[i]]
                 inFlight == c.inFlight \o
                                 [k \in 1..Cardinality(new) |-> c.queue + k - 1]
                 raced == race([k \in 1..Len(inFlight) |-> TaskPromise(task[inFlight[k]])])
             IN  [c EXCEPT !.queue = c.queue + Cardinality(new),
                           !.task = task,
                           !.inFlight = inFlight,
                           !.pc = IF raced.settles THEN "sweep" ELSE "blocked"]

\* processBatch(urls, {concurrency}) is called and runs to its first await
ProcessBatch(urls, concurrency) ==
    LET n == Len(urls)
        c == [fn |-> "processBatch", urls |-> urls, concurrency |-> concurrency,
              queue |-> 1, task |-> [i \in 1..n |-> "queued"],
              inFlight |-> << >>, pc |-> "start"]
    IN  /\ call' = IF concurrency = 1
                   THEN IF n = 0 THEN [c EXCEPT !.pc = "done"]
                        ELSE [c EXCEPT !.task[1] = "running", !.queue = 2,
                                       !.pc = "blocked"]
                   ELSE Turn(c)
        /\ result' = << >>
        /\ UNCHANGED << engineVars, browserVars, frame, log, inflight, outs, ret,
                        pinned, everTier3, closeBrowserCalls, obtained, pipelineVars,
                        callerVars >>

\* task i settles while processBatch is suspended; sequentially its result
\* is pushed and the next URL started, else the then callback pushes the
\* result and processBatch resumes after its await Promise.race(inFlight)
TaskSettles(i, ok) ==
    /\ call # NoCall /\ call.fn = "processBatch" /\ call.pc = "blocked"
    /\ i \in 1..Len(call.urls) /\ call.task[i] = "running"
    /\ result' = Append(result, BatchResult(call.urls[i], ok))
    /\ LET c == [call EXCEPT !.task[i] = IF ok THEN "ok" ELSE "error"]
       IN  call' = IF c.concurrency # 1 THEN [c EXCEPT !.pc = "sweep"]
                   ELSE IF c.queue > Len(c.urls) THEN [c EXCEPT !.pc = "done"]
                   ELSE [c EXCEPT !.task[c.queue] = "running",
                                  !.queue = c.queue + 1]
    /\ UNCHANGED << engineVars, browserVars, frame, log, inflight, outs, ret,
                    pinned, everTier3, closeBrowserCalls, obtained, pipelineVars,
                    callerVars >>

\* processBatch removes the completed promises from inFlight
Swept ==
    /\ call # NoCall /\ call.fn = "processBatch" /\ call.pc = "sweep"
    /\ call' = [call EXCEPT !.inFlight = Sweep(call.inFlight, call.task),
                            !.pc = "turn"]
    /\ UNCHANGED << engineVars, browserVars, frame, log, inflight, outs, ret,
                    pinned, everTier3, closeBrowserCalls, obtained, pipelineVars,
                    callerVars, result >>

\* processBatch is back at the test of its outer loop
Turned ==
    /\ call # NoCall /\ call.fn = "processBatch" /\ call.pc = "turn"
    /\ call' = Turn(call)
    /\ UNCHANGED << engineVars, browserVars, frame, log, inflight, outs, ret,
                    pinned, everTier3, closeBrowserCalls, obtained, pipelineVars,
                    callerVars, result >>

BatchUrls == {"a", "b", "c"}
Batches == UNION {[1..n -> BatchUrls] : n \in 0..MaxUrls}

InitBatch == InitTokens

NextBatch ==
    \/ /\ call = NoCall
       /\ \E urls \in Batches, concurrency \in 1..MaxUrls :
              ProcessBatch(urls, concurrency)
    \/ \E i \in 1..MaxUrls, ok \in BOOLEAN : TaskSettles(i, ok)
    \/ Swept
    \/ Turned
    \/ Returned

SpecBatch == InitBatch /\ [][NextBatch]_vars

(***************************************************************************)
(* Properties of processBatch.                                             *)
(***************************************************************************)
\* how often x occurs in the sequence s
Count(s, x) == Cardinality({k \in 1..Len(s) : s[k] = x})

\* C25: for every concurrency k >= 1 processBatch has at most k tasks
\* running (one if k = 1), returns exactly one BatchResult for each URL of
\* the batch whether it succeeded or failed, and leaves its loop at the
\* first test that finds every task settled.
C25_OneResultPerUrl ==
    [][ call'.fn = "processBatch" =>
          LET n == Len(call'.urls)
          IN  /\ Cardinality({i \in 1..n : call'.task[i] = "running"})
                     <= call'.concurrency
              /\ call'.pc = "done" =>
                     /\ Len(result') = n
                     /\ \A u \in BatchUrls :
                            Count([k \in 1..n |-> result'[k].url], u)
                                = Count(call'.urls, u)
              /\ (/\ call.fn = "processBatch" /\ call.pc = "turn"
                  /\ \A i \in 1..n : call.task[i] \in {"ok", "error"}) =>
                     call'.pc = "done" ]_vars

(***************************************************************************)
(* Properties of truncateText in middle mode.                              *)
(***************************************************************************)
\* the call truncates a string in middle mode
MiddleMode ==
    \/ OnText("truncateText") /\ Option(call.options, "mode", "end") = "middle"
    \/ OnText("truncate") /\ Option(call.options, "textMode", "end") = "middle"

\* C26: in middle mode, for a text whose estimate exceeds the budget B, the
\* content returned is the first h characters of the text, the marker, and
\* the last h characters, with h = floor((B - indicatorTokens) * 4 / 2); the
\* two parts do not overlap, and the content does not contain the text.
C26_MiddleKeepsEqualEnds ==
    (MiddleMode /\ estimateTokens(Input) > call.maxTokens) =>
        LET n == Len(Input)
            h == ((call.maxTokens - estimateTokens(DefaultIndicator)) * 4) \div 2
        IN  /\ result.truncated
            /\ h >= 0 /\ 2 * h <= n
            /\ result.content =
                   SubSeq(Input, 1, h) \o MiddleMarker \o SubSeq(Input, n - h + 1, n)
            /\ ~Contains(result.content, Input)

(***************************************************************************)
(* Properties of the singletons after a failed launch or load.             *)
(***************************************************************************)
\* C28: a getBrowser call made when no browser is connected and the launch
\* started last has rejected starts a new launch, and a getEmbeddingPipeline
\* call made when no model is loaded and the load started last has rejected
\* starts a new load: neither is handed the rejected promise.
C28_FailedLaunchNotCached ==
    [][ \A c \in Callers :
          (caller[c].pc = "idle" /\ caller'[c].pc # "idle") =>
              /\ (/\ caller'[c].fn = "getBrowser"
                  /\ ~Connected
                  /\ launchCalls > 0
                  /\ launchState[launchCalls] = "rejected") =>
                     /\ caller'[c].via = "launch"
                     /\ launchCalls' = launchCalls + 1
              /\ (/\ caller'[c].fn = "getEmbeddingPipeline"
                  /\ embeddingPipeline = 0
                  /\ loads > 0
                  /\ loadState[loads] = "rejected") =>
                     /\ caller'[c].via = "launch"
                     /\ loads' = loads + 1 ]_vars

(***************************************************************************)
(* closeBrowser among concurrent getBrowser calls (tier3-playwright.ts).   *)
(***************************************************************************)
\* a caller calls closeBrowser(): with an instance in the slot it awaits
\* browserInstance.close(), got being the browser it closes
CloseBrowser(c) ==
    /\ caller[c].pc = "idle"
    /\ caller' = [caller EXCEPT ![c] =
           [fn |-> "closeBrowser",
            pc |-> IF browserInstance # 0 THEN "closing" ELSE "done",
            promise |-> 0, via |-> "none", got |-> browserInstance]]
    /\ UNCHANGED << engineVars, browserVars, frame, log, inflight, outs, ret,
                    pinned, everTier3, closeBrowserCalls, obtained, pipelineVars,
                    launchCalls, launchState, call, result >>

\* a browser whose close() is awaited stops running: isConnected() is false
\* from here on
BrowserDisconnects(b) ==
    /\ b \in live
    /\ \E c \in Callers :
           caller[c].fn = "closeBrowser" /\ caller[c].pc = "closing" /\ caller[c].got = b
    /\ live' = live \ {b}
    /\ UNCHANGED << engineVars, browserInstance, browserLaunchPromise, launches,
                    frame, log, inflight, outs, ret, pinned, everTier3,
                    closeBrowserCalls, obtained, pipelineVars, callerVars, call, result >>

\* closeBrowser resumes after `await browserInstance.close()`:
\* browserInstance = null
CloseContinues(c) ==
    /\ caller[c].fn = "closeBrowser" /\ caller[c].pc = "closing"
    /\ caller[c].got \notin live
    /\ browserInstance' = 0
    /\ caller' = [caller EXCEPT ![c].pc = "done"]
    /\ UNCHANGED << engineVars, browserLaunchPromise, live, launches, frame, log,
                    inflight, outs, ret, pinned, everTier3, closeBrowserCalls, obtained,
                    pipelineVars, launchCalls, launchState, call, result >>

NextClose ==
    \/ \E c \in Callers : GetBrowser(c)
    \/ \E k \in 1..MaxCallers, ok \in BOOLEAN : LaunchSettles(k, ok)
    \/ \E c \in Callers : LaunchContinues(c)
    \/ \E c \in Callers : SharedSettles(c)
    \/ \E c \in Callers : CloseBrowser(c)
    \/ \E b \in 1..MaxCallers : BrowserDisconnects(b)
    \/ \E c \in Callers : CloseContinues(c)

SpecClose == InitRace /\ [][NextClose]_vars

\* the browsers launched by a getBrowser call that has yet to store them
Arriving ==
    {caller[c].promise : c \in {x \in Callers : /\ caller[x].fn = "getBrowser"
                                               /\ caller[x].pc = "launching"}}

\* C29: under every interleaving of closeBrowser and getBrowser calls at
\* most one browser is running, every running browser is the one in
\* browserInstance (or about to be stored there by the getBrowser call that
\* launched it), and getBrowser does not return a browser whose close() a
\* closeBrowser call is awaiting.
C29_OneBrowserInSlot ==
    [][ /\ Cardinality(live') <= 1
        /\ live' \subseteq {browserInstance'} \cup Arriving'
        /\ \A c \in Callers :
             (/\ caller[c].pc = "idle"
              /\ caller'[c].fn = "getBrowser"
              /\ caller'[c].via = "instance") =>
                 ~\E d \in Callers :
                      /\ caller[d].fn = "closeBrowser"
                      /\ caller[d].pc = "closing"
                      /\ caller[d].got = caller'[c].got ]_vars

(***************************************************************************)
(* Whose browser Engine.close closes.                                      *)
(***************************************************************************)
\* C30: Engine.close() closes a browser only if a fetch of this engine
\* obtained that browser from getBrowser since the engine was last closed;
\* an engine whose tier-3 attempt failed before getBrowser, or that is closed
\* twice in a row, closes no browser.
C30_ClosesOnlyOwnBrowser ==
    [][ \A e \in Engines :
          (frame[e].pc = "idle" /\ frame'[e].pc = "closing") =>
              frame'[e].browser \in obtained[e] ]_vars

(***************************************************************************)
(* Concurrent sessions: engines whose calls overlap, as the tasks of       *)
(* processBatch do (each processUrl has its own engine, fetches, and       *)
(* closes the engine in its finally block).                                *)
(***************************************************************************)
\* engines with ceiling 3
InitSessions ==
    /\ Init
    /\ \A e \in Engines : options[e].maxTier = PLAYWRIGHT

\* the URLs of a batch: one the fetchers accept and one they reject
SessionUrls == {"https://example.com/", "not-a-valid-url"}

\* what the network answers the sessions' tier 1 and 2 requests: a page
\* that needs no JavaScript, one that does, a 404, a failed connection
SessionResponses ==
    { HttpResponse(200, "article"), HttpResponse(200, "spa-root"),
      HttpResponse(404, "none"), Rejection("TypeError", {"fetch"}) }

\* what the page answers the sessions' tier 3 navigations
SessionNavigations ==
    { HttpResponse(200, "article"), Rejection("TimeoutError", {"Timeout"}) }

\* engine.fetch(url) is called while other engines' calls may be in progress
SessionFetch(e, url) == frame[e].pc = "idle" /\ EngineFetch(e, url)

\* engine.close() is called while other engines' calls may be in progress
SessionClose(e) == frame[e].pc = "idle" /\ EngineClose(e)

NextSessions ==
    \E e \in Engines :
        \/ \E url \in SessionUrls : SessionFetch(e, url)
        \/ UrlRejected(e)
        \/ \E resp \in SessionResponses : FetchSettles(e, resp)
        \/ LaunchResolves(e)
        \/ LaunchRejects(e)
        \/ SharedLaunchRejected(e)
        \/ \E resp \in SessionNavigations : Navigated(e, resp)
        \/ SessionClose(e)
        \/ CloseSettles(e)
        \/ Return(e)

SpecSessions == InitSessions /\ [][NextSessions]_vars

\* engine b's fetch is at tier 3 on browser k: getBrowser gave it k and its
\* page has not answered yet
InFlightOn(b, k) ==
    frame[b].op = "fetch" /\ frame[b].pc = "navigating" /\ frame[b].browser = k

=============================================================================
